---- MODULE Spec2Model ----
(***************************************************************************)
(* A model of caput's distributed array (caput/mpiarray.py).               *)
(*                                                                         *)
(* Axes and coordinates are 0-based as in the Python source; a shape, an   *)
(* offset or a coordinate is a TLA+ sequence, read with At(seq, ax).       *)
(* A rank's local buffer is a function from the coordinates of its local   *)
(* shape to element values.  Buffers that an MPIArray owns live in a       *)
(* per-rank heap and an MPIArray is its metadata plus the heap index of    *)
(* its buffer ("base"), so aliasing is visible.                            *)
(***************************************************************************)
EXTENDS Integers, Sequences, FiniteSets, TLC

(***************************************************************************)
(* Bounds of the model.                                                    *)
(***************************************************************************)
\* largest global extent of an axis of the arrays that are redistributed
MaxExtent == 3
\* largest number of request completions that report a failure in one run
MaxFail == 1

\* largest extent of an axis of the arrays whose derivation is followed
MaxDim == 2

\* longest sequence of operations deriving an array from a fresh one
MaxDepth == 2

\* ufunc calls a rank makes in a run of the collective-call model
MaxCalls == 2

\* largest threshold, in bytes, the partition planner is run with
MaxThreshold == 6

\* most products the next() of a task without inputs returns
MaxProducts == 2

\* the communicator sizes the derivations of arrays run on
MetaSizes == {1, 2, 3}

\* communicator sizes the redistribution is run on
CommSizes == {1, 2, 4}

\* communicator sizes the redistribution over a failing transport is run on
FailSizes == {2, 3}

\* element value standing for what an uninitialised or failed receive
\* buffer may hold
Garbage == 0 - 1

(***************************************************************************)
(* Python tuples and numpy index arithmetic.                               *)
(***************************************************************************)
At(seq, ax) == seq[ax + 1]

SetAt(seq, ax, v) == [seq EXCEPT ![ax + 1] = v]

Zeros(n) == [k \in 1..n |-> 0]

RECURSIVE Prod(_)
Prod(shape) ==
    IF shape = <<>> THEN 1 ELSE Head(shape) * Prod(Tail(shape))

\* the coordinates of an array of the given shape
RECURSIVE Box(_)
Box(shape) ==
    IF shape = <<>> THEN {<<>>}
    ELSE {<<x>> \o t : x \in 0..(Head(shape) - 1), t \in Box(Tail(shape))}

\* C-order (row-major) position of coordinate c in an array of the shape
RECURSIVE Ravel(_, _)
Ravel(c, shape) ==
    IF c = <<>> THEN 0
    ELSE Head(c) * Prod(Tail(shape)) + Ravel(Tail(c), Tail(shape))

\* ndarray.flatten(): the elements in C order, as a 1-d sequence
flatten(data, shape) ==
    [k \in 1..Prod(shape) |->
        data[CHOOSE c \in Box(shape) : Ravel(c, shape) = k - 1]]

\* a flat message received into a C-contiguous buffer of the given shape
RecvInto(payload, shape) ==
    [c \in Box(shape) |-> payload[Ravel(c, shape) + 1]]

\* arr[..., lo:hi, ...] along axis ax (0 <= lo <= hi <= extent)
SliceAx(data, shape, ax, lo, hi) ==
    [c \in Box(SetAt(shape, ax, hi - lo)) |->
        data[SetAt(c, ax, At(c, ax) + lo)]]

(***************************************************************************)
(* mpiutil.split_m / split_all / split_local: the balanced split of an     *)
(* extent n over m parts (mpiutil is not among the source files; this is   *)
(* the split the specification states).                                    *)
(***************************************************************************)
SplitNum(n, m, r) == (n \div m) + (IF r < n % m THEN 1 ELSE 0)

RECURSIVE SplitStart(_, _, _)
SplitStart(n, m, r) ==
    IF r = 0 THEN 0 ELSE SplitStart(n, m, r - 1) + SplitNum(n, m, r - 1)

split_m(n, m) ==
    [num   |-> [r \in 0..(m - 1) |-> SplitNum(n, m, r)],
     start |-> [r \in 0..(m - 1) |-> SplitStart(n, m, r)],
     end   |-> [r \in 0..(m - 1) |-> SplitStart(n, m, r) + SplitNum(n, m, r)]]

split_all(n, sz) == split_m(n, sz)

split_local(n, sz, rank) ==
    [num   |-> split_all(n, sz).num[rank],
     start |-> split_all(n, sz).start[rank],
     end   |-> split_all(n, sz).end[rank]]

(***************************************************************************)
(* MPIArray.__new__: the metadata of a freshly allocated array on a rank.  *)
(***************************************************************************)
MPIArray_new(global_shape, axis, sz, rank, base) ==
    LET loc == split_local(At(global_shape, axis), sz, rank)
    IN  [global_shape |-> global_shape,
         axis         |-> axis,
         local_shape  |-> SetAt(global_shape, axis, loc.num),
         local_offset |-> SetAt(Zeros(Len(global_shape)), axis, loc.start),
         base         |-> base]

(***************************************************************************)
(* State.                                                                  *)
(*                                                                         *)
(* Redistribution (MPIArray.redistribute), one process per rank:           *)
(*   size           the communicator's size                                *)
(*   typeok         mpiutil.typemap has a wire type for the dtype          *)
(*   newaxis        the axis arguments of the successive redistribute      *)
(*                  calls every rank makes (SPMD): <<j, i>>                *)
(*   arr[r]         the arrays rank r holds: the input A, then the result  *)
(*                  of every redistribute call that has returned           *)
(*   heap[r]        the buffers of rank r's arrays, indexed by base        *)
(*   maxfail        how many completions the transport may report failed   *)
(*   pc[r]          rank r's position in the current call                  *)
(*   requests_send, requests_recv, buffers   the call's local lists        *)
(*   chan[<<i, j>>] messages sent by i to j, tag and payload, that no      *)
(*                  receive has consumed yet, oldest first                 *)
(*   nIsend, nIrecv number of Isend / Irecv calls issued per pair          *)
(*   nbar[r]        number of Barrier calls rank r has returned from       *)
(*   nwait[r]       number of request.Wait calls rank r has returned from  *)
(*   errlog[r]      what rank r passed to logger.error, in order           *)
(*   failed         the completions the transport reported as failed       *)
(*   snap[r]        the input array and the contents of its buffer at the  *)
(*                  entry of each call                                     *)
(*   path[r]        the path each returned call took                       *)
(***************************************************************************)
VARIABLES size, typeok, maxfail, newaxis, arr, heap, pc, requests_send,
          requests_recv, buffers, chan, nIsend, nIrecv, nbar, nwait,
          errlog, failed, snap, path

redistVars == <<size, typeok, maxfail, newaxis, arr, heap, pc, requests_send,
                requests_recv, buffers, chan, nIsend, nIrecv, nbar, nwait,
                errlog, failed, snap, path>>

(***************************************************************************)
(* Derivation of arrays (allocate, wrap, views, dispatch), all ranks in    *)
(* step (SPMD):                                                            *)
(*   darr[r]        the array rank r holds: its metadata and the shape of  *)
(*                  its buffer                                             *)
(*   made[r]        what the last operation handed back on rank r          *)
(*   lastop         the last operation, the buffers and the axis of the    *)
(*                  wrap it made, and the number of operations that have   *)
(*                  derived darr from a fresh array                        *)
(***************************************************************************)
VARIABLES darr, made, lastop

metaVars == <<darr, made, lastop>>

(***************************************************************************)
(* Gather (MPIArray.gather), one process per rank, on the arrays arr:      *)
(*   target         the rank argument of the call                          *)
(*   gi[r]          the iteration ri rank r is in                          *)
(*   gathered[r]    the array the call builds and returns on rank r        *)
(*                                                                         *)
(* Global fetch (MPIArray.global_slice[sel]), one process per rank:        *)
(*   sel            the index expression every rank passes                 *)
(*   fetched[r]     what _resolve_slice and __getitem__ returned on rank r *)
(*   assigned[r]    the value rank r assigned through global_slice and     *)
(*                  whether the assignment raised                          *)
(***************************************************************************)
VARIABLES target, gi, gathered, sel, fetched, assigned

gatherVars == <<target, gi, gathered>>

resolveVars == <<sel, fetched, assigned>>

(***************************************************************************)
(* Collective calls in the dispatch of a ufunc, file input and output, and *)
(* the pipeline manager, each a record of the state of its operation:      *)
(*   coll           the ranks' positions in their ufunc calls and the      *)
(*                  collective calls they have entered                     *)
(*   h5             the file, the array and the state of a transfer        *)
(*   mgr            the tasks of a pipeline and the state of Manager.run   *)
(***************************************************************************)
VARIABLES coll, h5, mgr

laterVars == <<coll, h5, mgr>>

\* the variables of the array operations above
arrayVars == <<redistVars, metaVars, gatherVars, resolveVars>>

vars == <<redistVars, metaVars, gatherVars, resolveVars, laterVars>>

\* what the redistribution leaves alone
nonRedistVars == <<metaVars, gatherVars, resolveVars, laterVars>>

\* the values of the variables of the operations a run does not make
IdleMeta == darr = <<>> /\ made = <<>> /\ lastop = <<>>

IdleGather == target = 0 /\ gi = <<>> /\ gathered = <<>>

IdleResolve == sel = <<>> /\ fetched = <<>> /\ assigned = <<>>

IdleColl == coll = <<>>

IdleH5 == h5 = <<>>

IdleMgr == mgr = <<>>

IdleLater == IdleColl /\ IdleH5 /\ IdleMgr

\* the array operations are not made; the size of the communicator is left
\* to the run
IdleArrays ==
    /\ typeok = TRUE /\ maxfail = 0 /\ newaxis = <<>> /\ arr = <<>>
    /\ heap = <<>> /\ pc = <<>> /\ requests_send = <<>>
    /\ requests_recv = <<>> /\ buffers = <<>> /\ chan = <<>>
    /\ nIsend = <<>> /\ nIrecv = <<>> /\ nbar = <<>> /\ nwait = <<>>
    /\ errlog = <<>> /\ failed = {} /\ snap = <<>> /\ path = <<>>
    /\ IdleMeta /\ IdleGather /\ IdleResolve

Ranks == 0..(size - 1)

Pairs == Ranks \X Ranks

\* global shapes of the redistributed arrays: two axes, extents 1..MaxExtent
Shapes == {<<a, b>> : a \in 1..MaxExtent, b \in 1..MaxExtent}

\* the element stored at global coordinate g: distinct for distinct g
Label(g, global_shape) == Ravel(g, global_shape) + 1

\* the local buffer of the rank holding `a`, filled with the global labels
LabelData(a) ==
    [c \in Box(a.local_shape) |->
        Label([k \in 1..Len(c) |-> c[k] + a.local_offset[k]], a.global_shape)]

(***************************************************************************)
(* MPIArray.redistribute, lines 759-776 and 797-799: the local quantities  *)
(* of the exchange on `rank` for the array `self` and the new axis.        *)
(***************************************************************************)
\* pc: this rank's share of the new axis
redist_pc(self, axis, sz, rank) ==
    split_local(At(self.local_shape, axis), sz, rank).num

\* sar, ear: the current partition of the distributed axis
redist_ar(self, sz) == split_all(At(self.global_shape, self.axis), sz)

\* sac, eac: the target partition of the new axis
redist_ac(self, axis, sz) == split_all(At(self.local_shape, axis), sz)

new_shape(self, axis, sz, rank) ==
    SetAt(self.global_shape, axis, redist_pc(self, axis, sz, rank))

\* mutant of BlockLo: every block starts at the first split point
BlockLo_first(self, axis, sz, ic) == redist_ac(self, axis, sz).start[0]

\* np.array_split(arr, np.insert(eac, 0, sac[0]), axis)[1:][ic]
BlockLo(self, axis, sz, ic) ==
    IF ic = 0 THEN redist_ac(self, axis, sz).start[0]
    ELSE redist_ac(self, axis, sz).end[ic - 1]

BlockHi(self, axis, sz, ic) == redist_ac(self, axis, sz).end[ic]

BlockShape(self, axis, sz, ic) ==
    SetAt(self.local_shape, axis,
          BlockHi(self, axis, sz, ic) - BlockLo(self, axis, sz, ic))

blocks(self, data, axis, sz, ic) ==
    SliceAx(data, self.local_shape, axis,
            BlockLo(self, axis, sz, ic), BlockHi(self, axis, sz, ic))

buffer_shape(self, axis, sz, rank, ir, ic) ==
    LET ac == redist_ac(self, axis, sz)
        ar == redist_ar(self, sz)
        s1 == SetAt(new_shape(self, axis, sz, rank), axis,
                    ac.end[ic] - ac.start[ic])
    IN  SetAt(s1, self.axis, ar.end[ir] - ar.start[ir])

\* a receive buffer as np.ndarray(buffer_shape) leaves it
EmptyBuffer(shape) == [shape |-> shape, data |-> [c \in Box(shape) |-> Garbage]]

(***************************************************************************)
(* np.concatenate(buffers, axis, out): line 839.                           *)
(***************************************************************************)
RECURSIVE ExtBefore(_, _, _)
ExtBefore(bufs, ax, k) ==
    IF k = 0 THEN 0 ELSE ExtBefore(bufs, ax, k - 1) + At(bufs[k].shape, ax)

ConcatShape(bufs, ax) ==
    SetAt(bufs[1].shape, ax, ExtBefore(bufs, ax, Len(bufs)))

\* numpy accepts the operands only if they agree off the axis
ConcatOk(bufs, ax) ==
    \A k \in 1..Len(bufs) :
        SetAt(bufs[k].shape, ax, 0) = SetAt(bufs[1].shape, ax, 0)

\* mutant of concatenate: the operands are taken in reverse order
concatenate_reversed(bufs, ax) ==
    LET rev == [k \in 1..Len(bufs) |-> bufs[Len(bufs) + 1 - k]]
    IN  [c \in Box(ConcatShape(rev, ax)) |->
            LET k == CHOOSE j \in 1..Len(rev) :
                         /\ ExtBefore(rev, ax, j - 1) <= At(c, ax)
                         /\ At(c, ax) < ExtBefore(rev, ax, j)
            IN  rev[k].data[SetAt(c, ax, At(c, ax) - ExtBefore(rev, ax, k - 1))]]

concatenate(bufs, ax) ==
    [c \in Box(ConcatShape(bufs, ax)) |->
        LET k == CHOOSE j \in 1..Len(bufs) :
                     /\ ExtBefore(bufs, ax, j - 1) <= At(c, ax)
                     /\ At(c, ax) < ExtBefore(bufs, ax, j)
        IN  bufs[k].data[SetAt(c, ax, At(c, ax) - ExtBefore(bufs, ax, k - 1))]]

(***************************************************************************)
(* MPIArray.redistribute as a per-rank state machine.                      *)
(***************************************************************************)
\* the call rank r is in (or about to make), its array and its axis argument
CallNo(r) == Len(arr[r])

Self(r) == arr[r][CallNo(r)]

Axis(r) == newaxis[CallNo(r)]

\* where a rank goes when a call returns: the next call, or the end
AfterReturn(r) == IF CallNo(r) + 1 > Len(newaxis) THEN "done" ELSE "call"

\* `return result` of the current call on rank r over path p
Return(r, result, p) ==
    /\ arr' = [arr EXCEPT ![r] = Append(@, result)]
    /\ path' = [path EXCEPT ![r] = Append(@, p)]
    /\ pc' = [pc EXCEPT ![r] = AfterReturn(r)]

\* mutant of NewDistArr: the result is made a view of the input's buffer
NewDistArr_view(r) ==
    MPIArray_new(Self(r).global_shape, Axis(r), size, r, Self(r).base)

\* lines 842-844: dist_arr = MPIArray(self.global_shape, axis=axis, ...), an
\* array with a buffer of its own
NewDistArr(r) ==
    MPIArray_new(Self(r).global_shape, Axis(r), size, r, Len(heap[r]) + 1)

\* line 845: dist_arr[:] = trans_arr writes the buffer of dist_arr
Store(h, base, data) ==
    IF base = Len(h) + 1 THEN Append(h, data) ELSE [h EXCEPT ![base] = data]

\* mutant of NoExchange: the wire type of the elements is not looked up
NoExchange_axis_only(r) == Self(r).axis = Axis(r)

\* lines 726 and 732-741: the calls that return self without any exchange
NoExchange(r) == Self(r).axis = Axis(r) \/ ~typeok

\* lines 725-757 and 842-847: entry of redistribute; the fast paths, the
\* single-process copy, or the set-up of the exchange
Enter(r) ==
    /\ UNCHANGED nonRedistVars
    /\ pc[r] = "call"
    /\ snap' = [snap EXCEPT ![r] =
                   Append(@, [arr |-> Self(r), data |-> heap[r][Self(r).base]])]
    /\ IF NoExchange(r)
       THEN /\ Return(r, Self(r),
                      IF Self(r).axis = Axis(r) THEN "same_axis" ELSE "no_type")
            /\ UNCHANGED <<heap, buffers>>
       ELSE IF size = 1
       THEN IF At(Self(r).local_shape, Self(r).axis)
                  = At(Self(r).global_shape, Self(r).axis)
               /\ NewDistArr(r).local_shape = Self(r).local_shape
            THEN \* trans_arr = arr.copy(); dist_arr[:] = trans_arr
                 /\ heap' = [heap EXCEPT ![r] =
                       Store(@, NewDistArr(r).base, heap[r][Self(r).base])]
                 /\ Return(r, NewDistArr(r), "copy")
                 /\ UNCHANGED buffers
            ELSE /\ pc' = [pc EXCEPT ![r] = "raised"]
                 /\ UNCHANGED <<arr, path, heap, buffers>>
       ELSE /\ buffers' = [buffers EXCEPT ![r] = <<>>]
            /\ pc' = [pc EXCEPT ![r] = "loop"]
            /\ UNCHANGED <<arr, path, heap>>
    /\ UNCHANGED <<size, typeok, maxfail, newaxis, requests_send, requests_recv, chan,
                   nIsend, nIrecv, nbar, nwait, errlog, failed>>

\* lines 779-805 on rank r, which takes part in the iterations (r, ic) and
\* (ir, r): the Isend of blocks[ic] to every ic, in order, and the Irecv of a
\* fresh buffer from every ir, in order.  Both calls are local and return at
\* once, so the loop is one step of the rank.
\* mutant of redist_tag: the tag is the sum of the two ranks
redist_tag_sum(ir, ic, sz) == ir + ic

\* line 785: tag = ir * self.comm.size + ic
redist_tag(ir, ic, sz) == ir * sz + ic

\* lines 794 and 805: [ir, ic, request], the request standing for its tag
LoopSends(r) ==
    [k \in 1..size |-> <<r, k - 1, redist_tag(r, k - 1, size)>>]

LoopRecvs(r) ==
    [k \in 1..size |-> <<k - 1, r, redist_tag(k - 1, r, size)>>]

\* the pair of ranks of a request
PairOf(req) == <<req[1], req[2]>>

\* MPI matching: the place in the messages from a source to a destination
\* of the oldest message that carries the tag, 0 if there is none
Match(msgs, tag) ==
    IF \E m \in 1..Len(msgs) : msgs[m].tag = tag
    THEN CHOOSE m \in 1..Len(msgs) :
            /\ msgs[m].tag = tag
            /\ \A n \in 1..(m - 1) : msgs[n].tag # tag
    ELSE 0

\* the sequence s without its m-th entry
Without(s, m) == SubSeq(s, 1, m - 1) \o SubSeq(s, m + 1, Len(s))

Payload(r, ic) ==
    flatten(blocks(Self(r), heap[r][Self(r).base], Axis(r), size, ic),
            BlockShape(Self(r), Axis(r), size, ic))

\* mutant of AfterLoop: the ranks go on to wait without the barrier
AfterLoop_no_barrier(r) == "waitsend"

\* lines 807-808: after the loop the rank enters the barrier
AfterLoop(r) == "barrier1"

Loop(r) ==
    /\ UNCHANGED nonRedistVars
    /\ pc[r] = "loop"
    /\ chan' = [p \in Pairs |->
                   IF p[1] = r
                   THEN Append(chan[p], [tag |-> redist_tag(r, p[2], size),
                                         data |-> Payload(r, p[2])])
                   ELSE chan[p]]
    /\ requests_send' = [requests_send EXCEPT ![r] = LoopSends(r)]
    /\ nIsend' = [p \in Pairs |-> IF p[1] = r THEN nIsend[p] + 1 ELSE nIsend[p]]
    /\ buffers' = [buffers EXCEPT ![r] =
          [k \in 1..size |->
              EmptyBuffer(buffer_shape(Self(r), Axis(r), size, r, k - 1, r))]]
    /\ requests_recv' = [requests_recv EXCEPT ![r] = LoopRecvs(r)]
    /\ nIrecv' = [p \in Pairs |-> IF p[2] = r THEN nIrecv[p] + 1 ELSE nIrecv[p]]
    /\ pc' = [pc EXCEPT ![r] = AfterLoop(r)]
    /\ UNCHANGED <<size, typeok, maxfail, newaxis, arr, heap, nbar, nwait,
                   errlog, failed, snap, path>>

\* mutant of BarrierOpen: the barrier opens only while every rank is still
\* inside it
BarrierOpen_all_inside(r) ==
    \A q \in Ranks : nbar[q] = nbar[r] /\ pc[q] \in {"barrier1", "barrier2"}

\* comm.Barrier() returns on rank r once every rank has entered the same
\* barrier: each other rank is inside it or has already left it
BarrierOpen(r) ==
    \A q \in Ranks :
        \/ nbar[q] > nbar[r]
        \/ nbar[q] = nbar[r] /\ pc[q] \in {"barrier1", "barrier2"}

\* lines 808 and 822
Barrier(r) ==
    /\ UNCHANGED nonRedistVars
    /\ pc[r] \in {"barrier1", "barrier2"}
    /\ BarrierOpen(r)
    /\ nbar' = [nbar EXCEPT ![r] = @ + 1]
    /\ pc' = [pc EXCEPT ![r] = IF pc[r] = "barrier1" THEN "waitsend" ELSE "waitrecv"]
    /\ UNCHANGED <<size, typeok, maxfail, newaxis, arr, heap, requests_send,
                   requests_recv, buffers, chan, nIsend, nIrecv, nwait,
                   errlog, failed, snap, path>>

\* the transport may report a failure while fewer than MaxFail were reported
MayFail(fail) == fail => Cardinality(failed) < maxfail

\* what rank r does with the status of a completed request: lines 817-820
\* and 832-836
CheckStatus(r, kind, req, fail) ==
    IF fail THEN Append(errlog[r], <<kind, req[1], req[2], r>>) ELSE errlog[r]

\* mutant of AfterWait: a failure status ends the call with an exception
AfterWait_raise(here, after, rest, fail) ==
    IF fail THEN "raised" ELSE IF rest = <<>> THEN after ELSE here

\* where rank r goes after a Wait returned: on to the next request of the
\* list whatever the status, and to `after` when the list is exhausted
AfterWait(here, after, rest, fail) ==
    IF rest = <<>> THEN after ELSE here

\* request.Wait(status=stat) returned on rank r with the given status
Waited(r, kind, req, fail) ==
    /\ MayFail(fail)
    /\ failed' = IF fail THEN failed \cup {<<kind, req[1], req[2], CallNo(r)>>}
                 ELSE failed
    /\ errlog' = [errlog EXCEPT ![r] = CheckStatus(r, kind, req, fail)]
    /\ nwait' = [nwait EXCEPT ![r] = @ + 1]

\* lines 811-820: request.Wait on the next send request.  A send completes
\* at the latest when its receive is posted.
WaitSend(r) ==
    /\ UNCHANGED nonRedistVars
    /\ pc[r] = "waitsend"
    /\ LET req == Head(requests_send[r])
       IN  /\ nIrecv[PairOf(req)] >= nIsend[PairOf(req)]
           /\ \E fail \in BOOLEAN :
                 /\ Waited(r, "SEND", req, fail)
                 /\ pc' = [pc EXCEPT ![r] =
                       AfterWait("waitsend", "barrier2",
                                 Tail(requests_send[r]), fail)]
    /\ requests_send' = [requests_send EXCEPT ![r] = Tail(@)]
    /\ UNCHANGED <<size, typeok, maxfail, newaxis, arr, heap, requests_recv,
                   buffers, chan, nIsend, nIrecv, nbar, snap, path>>

\* lines 826-836: request.Wait on the next receive request: the oldest
\* payload of the pair with the tag of the request lands in buffers[ir]; after a reported failure the
\* buffer holds the payload or anything else
WaitRecv(r) ==
    /\ UNCHANGED nonRedistVars
    /\ pc[r] = "waitrecv"
    /\ LET req == Head(requests_recv[r])
           ir  == req[1]
           shp == buffers[r][ir + 1].shape
           m   == Match(chan[PairOf(req)], req[3])
           msg == chan[PairOf(req)][m].data
       IN  /\ m # 0
           /\ \E fail \in BOOLEAN, lost \in BOOLEAN :
                 /\ lost => fail
                 /\ Waited(r, "RECV", req, fail)
                 /\ pc' = [pc EXCEPT ![r] =
                       AfterWait("waitrecv", "assemble",
                                 Tail(requests_recv[r]), fail)]
                 /\ buffers' = [buffers EXCEPT ![r][ir + 1].data =
                       IF lost \/ Len(msg) # Prod(shp) THEN @
                       ELSE RecvInto(msg, shp)]
           /\ chan' = [chan EXCEPT ![PairOf(req)] = Without(@, m)]
    /\ requests_recv' = [requests_recv EXCEPT ![r] = Tail(@)]
    /\ UNCHANGED <<size, typeok, maxfail, newaxis, arr, heap, requests_send,
                   nIsend, nIrecv, nbar, snap, path>>

\* lines 839-847: np.concatenate(buffers, self.axis, trans_arr), then the new
\* MPIArray is filled with trans_arr and returned
Assemble(r) ==
    /\ UNCHANGED nonRedistVars
    /\ pc[r] = "assemble"
    /\ IF /\ ConcatOk(buffers[r], Self(r).axis)
          /\ ConcatShape(buffers[r], Self(r).axis)
                = new_shape(Self(r), Axis(r), size, r)
          /\ NewDistArr(r).local_shape = new_shape(Self(r), Axis(r), size, r)
       THEN /\ heap' = [heap EXCEPT ![r] =
                          Store(@, NewDistArr(r).base,
                                concatenate(buffers[r], Self(r).axis))]
            /\ Return(r, NewDistArr(r), "exchange")
       ELSE /\ pc' = [pc EXCEPT ![r] = "raised"]
            /\ UNCHANGED <<arr, path, heap>>
    /\ UNCHANGED <<size, typeok, maxfail, newaxis, requests_send, requests_recv,
                   buffers, chan, nIsend, nIrecv, nbar, nwait, errlog, failed,
                   snap>>

\* every rank holds the array A = MPIArray(global_shape, axis=i) filled with
\* the global labels and is about to make the redistribute calls of `calls`
InitArrays(sizes, budget, calls) ==
    /\ size \in sizes
    /\ typeok \in BOOLEAN
    /\ maxfail = budget
    /\ \E shape \in Shapes, i \in 0..1, j \in 0..1 :
          /\ newaxis = SubSeq(<<j, i>>, 1, calls)
          /\ arr = [r \in Ranks |-> <<MPIArray_new(shape, i, size, r, 1)>>]
    /\ heap = [r \in Ranks |-> <<LabelData(arr[r][1])>>]
    /\ pc = [r \in Ranks |-> "call"]
    /\ requests_send = [r \in Ranks |-> <<>>]
    /\ requests_recv = [r \in Ranks |-> <<>>]
    /\ buffers = [r \in Ranks |-> <<>>]
    /\ chan = [p \in Pairs |-> <<>>]
    /\ nIsend = [p \in Pairs |-> 0]
    /\ nIrecv = [p \in Pairs |-> 0]
    /\ nbar = [r \in Ranks |-> 0]
    /\ nwait = [r \in Ranks |-> 0]
    /\ errlog = [r \in Ranks |-> <<>>]
    /\ failed = {}
    /\ snap = [r \in Ranks |-> <<>>]
    /\ path = [r \in Ranks |-> <<>>]
    /\ IdleMeta /\ IdleGather /\ IdleResolve /\ IdleLater

\* a reliable transport; every rank calls redistribute(j), then redistribute(i)
InitRedist == InitArrays(CommSizes, 0, 2)

\* a transport that may report failures; every rank calls redistribute(j)
InitRedistFail == InitArrays(FailSizes, MaxFail, 1)

NextRedist ==
    \/ \E r \in Ranks : Enter(r)
    \/ \E r \in Ranks : Loop(r)
    \/ \E r \in Ranks : Barrier(r)
    \/ \E r \in Ranks : WaitSend(r)
    \/ \E r \in Ranks : WaitRecv(r)
    \/ \E r \in Ranks : Assemble(r)

SpecRedist == InitRedist /\ [][NextRedist]_vars

SpecRedistFail == InitRedistFail /\ [][NextRedist]_vars

\* communicator sizes the progress of redistribute is checked on
LiveSizes == {2, 3}

\* the ranks a communicator of the model can have
AllRanks == 0..3

\* what rank r does next in redistribute
RankStep(r) ==
    Enter(r) \/ Loop(r) \/ Barrier(r) \/ WaitSend(r) \/ WaitRecv(r)
        \/ Assemble(r)

\* every rank is a process of its own that goes on while it can, and the
\* transport completes what can complete
InitRedistLive == InitArrays(LiveSizes, 0, 2)

SpecRedistFair ==
    /\ InitRedistLive
    /\ [][NextRedist]_vars
    /\ \A r \in AllRanks : WF_vars(r \in Ranks /\ RankStep(r))

(***************************************************************************)
(* Python indexing with a possibly negative index, optional values, basic  *)
(* index expressions (int and slice entries) and numpy basic indexing.     *)
(***************************************************************************)
InRange(n, i) == (0 - n) <= i /\ i < n

PyIdx(n, i) == IF i < 0 THEN i + n ELSE i

PyAt(seq, i) == seq[PyIdx(Len(seq), i) + 1]

PySet(seq, i, v) == [seq EXCEPT ![PyIdx(Len(seq), i) + 1] = v]

Max(a, b) == IF a > b THEN a ELSE b

Min(a, b) == IF a < b THEN a ELSE b

\* None, or an integer
None == [some |-> FALSE, v |-> 0]

Some(x) == [some |-> TRUE, v |-> x]

\* an integer index and slice(start, stop, step)
PyInt(k) == [kind |-> "int", i |-> k, start |-> None, stop |-> None, step |-> None]

PySlice(a, b, c) == [kind |-> "slice", i |-> 0, start |-> a, stop |-> b, step |-> c]

FullSlice == PySlice(None, None, None)

\* slice.indices(n) for a step that is None or positive
SliceStep(s) == IF s.step.some THEN s.step.v ELSE 1

SliceBound(x, n, default) ==
    IF ~x.some THEN default
    ELSE IF x.v < 0 THEN Max(x.v + n, 0) ELSE Min(x.v, n)

SliceStart(s, n) == SliceBound(s.start, n, 0)

SliceStop(s, n) == SliceBound(s.stop, n, n)

SliceLen(s, n) ==
    IF SliceStop(s, n) > SliceStart(s, n)
    THEN ((SliceStop(s, n) - SliceStart(s, n) - 1) \div SliceStep(s)) + 1
    ELSE 0

\* ndarray.__getitem__(v) for a tuple v with one int or slice per axis:
\* whether numpy accepts it, the shape of the result and its elements
np_getitem_ok(shape, v) ==
    \A k \in 1..Len(v) : v[k].kind = "int" => InRange(shape[k], v[k].i)

RECURSIVE np_getitem_shape(_, _)
np_getitem_shape(shape, v) ==
    IF v = <<>> THEN <<>>
    ELSE IF Head(v).kind = "int" THEN np_getitem_shape(Tail(shape), Tail(v))
    ELSE <<SliceLen(Head(v), Head(shape))>>
             \o np_getitem_shape(Tail(shape), Tail(v))

\* the source coordinate of the element at coordinate c of the result
RECURSIVE np_getitem_src(_, _, _)
np_getitem_src(c, shape, v) ==
    IF v = <<>> THEN <<>>
    ELSE IF Head(v).kind = "int"
    THEN <<PyIdx(Head(shape), Head(v).i)>>
             \o np_getitem_src(c, Tail(shape), Tail(v))
    ELSE <<SliceStart(Head(v), Head(shape)) + Head(c) * SliceStep(Head(v))>>
             \o np_getitem_src(Tail(c), Tail(shape), Tail(v))

np_getitem(data, shape, v) ==
    [c \in Box(np_getitem_shape(shape, v)) |-> data[np_getitem_src(c, shape, v)]]

\* arr[...] = value accepts a value whose shape broadcasts to the target's
Broadcastable(vshape, shape) ==
    /\ Len(vshape) = Len(shape)
    /\ \A k \in 1..Len(shape) : vshape[k] = shape[k] \/ vshape[k] = 1

(***************************************************************************)
(* The metadata of an MPIArray on one rank together with the shape of its  *)
(* buffer (ndarray.shape), and what an operation hands back on a rank.     *)
(***************************************************************************)
NoArr ==
    [shape |-> <<>>, global_shape |-> <<>>, axis |-> 0, local_shape |-> <<>>,
     local_offset |-> <<>>, comm |-> "none"]

Ok(a) == [res |-> "ok", arr |-> a]

\* the operation raised an exception
Raised == [res |-> "raised", arr |-> NoArr]

\* the operation returned a plain ndarray or a scalar
Plain == [res |-> "plain", arr |-> NoArr]

\* MPIArray(global_shape, axis=axis, comm=comm): lines 602-630
MPIArray_alloc(global_shape, axis, comm, sz, rank) ==
    LET m == MPIArray_new(global_shape, axis, sz, rank, 0)
    IN  [shape        |-> m.local_shape,
         global_shape |-> m.global_shape,
         axis         |-> m.axis,
         local_shape  |-> m.local_shape,
         local_offset |-> m.local_offset,
         comm         |-> comm]

(***************************************************************************)
(* MPIArray.wrap: lines 643-708.  shapes[q] is the shape of the buffer     *)
(* rank q passes.                                                          *)
(***************************************************************************)
RECURSIVE SumBelow(_, _)
SumBelow(f, k) == IF k = 0 THEN 0 ELSE SumBelow(f, k - 1) + f[k - 1]

\* mpiutil.allreduce(axlen): line 680
wrap_totallen(shapes, axis, sz) ==
    SumBelow([q \in 0..(sz - 1) |-> PyAt(shapes[q], axis)], sz)

\* mutant of layout_issue: every rank looks at its own extent only
layout_issue_local(shapes, axis, sz, rank) ==
    PyAt(shapes[rank], axis)
        # split_local(wrap_totallen(shapes, axis, sz), sz, rank).num

\* mpiutil.allreduce(axlen != local_num, op=MAX): line 687
layout_issue(shapes, axis, sz, rank) ==
    \E q \in 0..(sz - 1) :
        PyAt(shapes[q], axis)
            # split_local(wrap_totallen(shapes, axis, sz), sz, q).num

wrap(shapes, axis, comm, sz, rank) ==
    IF ~InRange(Len(shapes[rank]), axis) THEN Raised
    ELSE IF layout_issue(shapes, axis, sz, rank) THEN Raised
    ELSE LET totallen == wrap_totallen(shapes, axis, sz)
             lshape   == shapes[rank]
         IN  Ok([shape        |-> lshape,
                 global_shape |-> PySet(lshape, axis, totallen),
                 axis         |-> axis,
                 local_shape  |-> lshape,
                 local_offset |-> PySet(Zeros(Len(lshape)), axis,
                                        split_local(totallen, sz, rank).start),
                 comm         |-> comm])

(***************************************************************************)
(* MPIArray.__array_finalize__: lines 1445-1504, for a view of the given   *)
(* shape taken of the MPIArray obj.                                        *)
(***************************************************************************)
\* mutant of array_finalize: the offset is not looked up
array_finalize_no_offset(shape, obj, sz, rank) ==
    IF ~InRange(Len(obj.global_shape), obj.axis) THEN Raised
    ELSE IF ~InRange(Len(shape), obj.axis) THEN Raised
    ELSE Ok([shape        |-> shape,
             global_shape |-> PySet(shape, obj.axis,
                                    PyAt(obj.global_shape, obj.axis)),
             axis         |-> obj.axis,
             local_shape  |-> shape,
             local_offset |-> Zeros(Len(shape)),
             comm         |-> obj.comm])

array_finalize(shape, obj, sz, rank) ==
    IF ~InRange(Len(obj.global_shape), obj.axis) THEN Raised
    ELSE IF ~InRange(Len(shape), obj.axis) THEN Raised
    ELSE LET axlen == PyAt(obj.global_shape, obj.axis)
         IN  Ok([shape        |-> shape,
                 global_shape |-> PySet(shape, obj.axis, axlen),
                 axis         |-> obj.axis,
                 local_shape  |-> shape,
                 local_offset |-> PySet(Zeros(Len(shape)), obj.axis,
                                        split_local(axlen, sz, rank).start),
                 comm         |-> obj.comm])

(***************************************************************************)
(* MPIArray.__getitem__: lines 390-467, for a tuple v with one int or      *)
(* slice per axis.                                                         *)
(***************************************************************************)
\* lines 402-405: the entry of the distributed axis selects all of it
IsWholeAxis(self, v) ==
    \/ PyAt(v, self.axis) = FullSlice
    \/ PyAt(v, self.axis) = PySlice(Some(0), Some(PyAt(self.shape, self.axis)), None)

\* lines 427-434: the number of the distributed axis after the slicing
getitem_dist_axis(self, v) ==
    Cardinality({k \in 1..Len(v) : v[k].kind # "int" /\ k - 1 < self.axis})

MPIArray_getitem(self, v, sz, rank) ==
    IF ~np_getitem_ok(self.shape, v) THEN Raised
    ELSE IF ~IsWholeAxis(self, v) THEN Plain
    ELSE IF self.axis < 0 THEN Raised
    ELSE IF getitem_dist_axis(self, v) = self.axis
    THEN array_finalize(np_getitem_shape(self.shape, v), self, sz, rank)
    ELSE LET sliced == np_getitem_shape(self.shape, v)
             dist_axis == getitem_dist_axis(self, v)
             a == MPIArray_alloc(SetAt(sliced, dist_axis,
                                       At(self.global_shape, self.axis)),
                                 dist_axis, self.comm, sz, rank)
         IN  IF sliced = <<>> THEN Plain
             ELSE IF Broadcastable(sliced, a.shape) THEN Ok(a) ELSE Raised

(***************************************************************************)
(* MPIArray.transpose: lines 1046-1078.  axes is the tuple passed, <<>>    *)
(* for a call without arguments.                                           *)
(***************************************************************************)
transpose_axes(self, axes) ==
    IF axes = <<>> THEN [k \in 1..Len(self.shape) |-> Len(self.shape) - k]
    ELSE axes

MPIArray_transpose(self, axes, sz, rank) ==
    LET ax    == transpose_axes(self, axes)
        tdata == array_finalize([k \in 1..Len(ax) |-> At(self.shape, ax[k])],
                                self, sz, rank)
    IN  IF tdata.res # "ok" THEN tdata
        ELSE IF \A k \in 1..Len(ax) : ax[k] # self.axis THEN Raised
        ELSE Ok([tdata.arr EXCEPT
                   !.global_shape = [k \in 1..Len(ax) |-> At(self.global_shape, ax[k])],
                   !.local_shape  = [k \in 1..Len(ax) |-> At(self.local_shape, ax[k])],
                   !.local_offset = [k \in 1..Len(ax) |-> At(self.local_offset, ax[k])],
                   !.axis = (CHOOSE k \in 1..Len(ax) : ax[k] = self.axis) - 1,
                   !.comm = self.comm])

(***************************************************************************)
(* MPIArray.reshape: lines 1080-1124.  The shape passed is before, None,   *)
(* after.                                                                  *)
(***************************************************************************)
MPIArray_reshape(self, before, after, sz, rank) ==
    LET new_axis     == Len(before)
        local_shape  == before \o <<PyAt(self.local_shape, self.axis)>> \o after
        global_shape == before \o <<PyAt(self.global_shape, self.axis)>> \o after
        local_offset == Zeros(Len(before))
                            \o <<PyAt(self.local_offset, self.axis)>>
                            \o Zeros(Len(after))
        rdata        == array_finalize(local_shape, self, sz, rank)
    IN  IF Prod(local_shape) # Prod(self.local_shape) THEN Raised
        ELSE IF Prod(local_shape) # Prod(self.shape) THEN Raised
        ELSE IF rdata.res # "ok" THEN rdata
        ELSE Ok([rdata.arr EXCEPT
                   !.axis = new_axis,
                   !.comm = self.comm,
                   !.local_shape = local_shape,
                   !.global_shape = global_shape,
                   !.local_offset = local_offset])

(***************************************************************************)
(* MPIArray.copy: lines 1126-1135.  selfs[q] is the array on rank q.       *)
(***************************************************************************)
MPIArray_copy(selfs, sz, rank) ==
    wrap([q \in 0..(sz - 1) |-> selfs[q].shape], selfs[rank].axis,
         selfs[rank].comm, sz, rank)

(***************************************************************************)
(* MPIArray.__array_ufunc__: lines 1339-1440, for a ufunc of one output    *)
(* without `out`, applied to the array alone or to the array and further   *)
(* MPIArrays of the same shape.  method is "__call__", "reduce" or         *)
(* "accumulate"; kwaxis is the axis keyword (None or an integer); others   *)
(* are the axis attributes of the further MPIArray inputs, in order.       *)
(***************************************************************************)
\* mutant of mpi_to_ndarray: the axes of the inputs are not compared
mpi_to_ndarray_unchecked(axes) ==
    [raised |-> FALSE, dist_axis |-> axes[1]]

\* _mpi_to_ndarray, lines 1577-1619, for the axis attributes of the
\* MPIArray inputs: whether it raises AxisException, and dist_axis
mpi_to_ndarray(axes) ==
    [raised |-> \E k \in 2..Len(axes) : axes[k] # axes[1],
     dist_axis |-> axes[1]]

\* lines 1381-1385: AxisException for an operation along dist_axis
ufunc_axis_exception(self, kwaxis) ==
    kwaxis.some /\ kwaxis.v = self.axis

\* whether ndarray's ufunc machinery accepts the axis keyword
ufunc_axis_ok(shape, method, kwaxis) ==
    method \in {"reduce", "accumulate"} /\ kwaxis.some
        => InRange(Len(shape), kwaxis.v)

\* the shape of the result ndarray's ufunc machinery returns
ufunc_result_shape(shape, method, kwaxis, keepdims) ==
    IF method # "reduce" THEN shape
    ELSE IF ~kwaxis.some
    THEN IF keepdims THEN [k \in 1..Len(shape) |-> 1] ELSE <<>>
    ELSE IF keepdims THEN PySet(shape, kwaxis.v, 1)
    ELSE LET d == PyIdx(Len(shape), kwaxis.v) + 1
         IN  SubSeq(shape, 1, d - 1) \o SubSeq(shape, d + 1, Len(shape))

\* lines 1379 and 1410-1417: the distributed axis of the result
ufunc_dist_axis(self, method, kwaxis, keepdims) ==
    IF /\ method = "reduce"
       /\ ufunc_result_shape(self.shape, method, kwaxis, keepdims) # <<>>
       /\ ~keepdims
       /\ kwaxis.v < self.axis
    THEN self.axis - 1
    ELSE self.axis

\* lines 1381-1385 and 1397: the call ends in an exception before any
\* result is wrapped
ufunc_raises(self, method, kwaxis) ==
    \/ ufunc_axis_exception(self, kwaxis)
    \/ ~ufunc_axis_ok(self.shape, method, kwaxis)

\* mutant of ufunc_wrap_shapes: only rank 0 hands a scalar result on, as
\* one element, and the other ranks hand on none
ufunc_wrap_shapes_root_only(selfs, method, kwaxis, keepdims, sz) ==
    [q \in 0..(sz - 1) |->
        IF ufunc_result_shape(selfs[q].shape, method, kwaxis, keepdims) # <<>>
        THEN ufunc_result_shape(selfs[q].shape, method, kwaxis, keepdims)
        ELSE IF q = 0 THEN <<1>> ELSE <<0>>]

\* lines 1433-1438: the buffers and the axis handed to wrap
ufunc_wrap_shapes(selfs, method, kwaxis, keepdims, sz) ==
    [q \in 0..(sz - 1) |->
        IF ufunc_result_shape(selfs[q].shape, method, kwaxis, keepdims) # <<>>
        THEN ufunc_result_shape(selfs[q].shape, method, kwaxis, keepdims)
        ELSE <<1>>]

ufunc_wrap_axis(self, method, kwaxis, keepdims) ==
    IF ufunc_result_shape(self.shape, method, kwaxis, keepdims) # <<>>
    THEN ufunc_dist_axis(self, method, kwaxis, keepdims)
    ELSE 0

array_ufunc(selfs, others, method, kwaxis, keepdims, sz, rank) ==
    IF mpi_to_ndarray(<<selfs[rank].axis>> \o others).raised THEN Raised
    ELSE IF ufunc_raises(selfs[rank], method, kwaxis) THEN Raised
    ELSE wrap(ufunc_wrap_shapes(selfs, method, kwaxis, keepdims, sz),
              ufunc_wrap_axis(selfs[rank], method, kwaxis, keepdims),
              "world", sz, rank)

(***************************************************************************)
(* MPIArray.redistribute, lines 710-847, as far as the metadata of the     *)
(* result goes: the array handed back once the exchange has completed.     *)
(***************************************************************************)
\* arr = self.view(np.ndarray) with the axis as Python resolves it
redist_view(self) ==
    [global_shape |-> self.global_shape,
     axis         |-> PyIdx(Len(self.global_shape), self.axis),
     local_shape  |-> self.shape,
     local_offset |-> self.local_offset,
     base         |-> 0]

redistribute_result(selfs, axis, sz, rank) ==
    LET self == selfs[rank]
        view == redist_view(self)
        bufs == [k \in 1..sz |->
                    [shape |-> buffer_shape(view, axis, sz, rank, k - 1, rank)]]
        dist_arr == MPIArray_alloc(self.global_shape, axis, self.comm, sz, rank)
    IN  IF self.axis = axis THEN Ok(self)
        ELSE IF ~InRange(Len(self.global_shape), self.axis) THEN Raised
        ELSE IF Len(self.shape) # Len(self.global_shape) THEN Raised
        ELSE IF sz = 1
        THEN IF At(view.local_shape, view.axis) = At(view.global_shape, view.axis)
                /\ Broadcastable(view.local_shape, dist_arr.shape)
             THEN Ok(dist_arr) ELSE Raised
        ELSE IF /\ \A q \in 0..(sz - 1) :
                      Prod(BlockShape(redist_view(selfs[q]), axis, sz, rank))
                          = Prod(bufs[q + 1].shape)
                /\ ConcatOk(bufs, view.axis)
                /\ ConcatShape(bufs, view.axis) = new_shape(view, axis, sz, rank)
                /\ Broadcastable(new_shape(view, axis, sz, rank), dist_arr.shape)
        THEN Ok(dist_arr) ELSE Raised

(***************************************************************************)
(* The derivation of arrays as a state machine: an array is allocated or   *)
(* wrapped, then every rank applies the same operation to its array.  An   *)
(* operation that fails on a rank ends the derivation of that array.       *)
(***************************************************************************)
Comms == {"world", "dup"}

\* the shapes of the fresh arrays: one or two axes, extents 1..MaxDim
DimShapes ==
    UNION {[1..d -> 1..MaxDim] : d \in 1..2}

AxesOf(shape) == 0..(Len(shape) - 1)

AxisOrders(n) ==
    {p \in [1..n -> 0..(n - 1)] : \A a, b \in 1..n : p[a] = p[b] => a = b}

\* the extents a reshape may name
ReshapeExtents == (1..MaxDim) \cup {MaxDim * MaxDim}

ReshapeParts ==
    {<<>>} \cup [1..1 -> ReshapeExtents] \cup [1..2 -> ReshapeExtents]

\* the shapes (before, None, after) a reshape of self may name: those that
\* keep the number of elements off the distributed axis, and one that does not
ReshapeArgs(self) ==
    LET off == Prod(PySet(self.shape, self.axis, 1))
    IN  {p \in ReshapeParts \X ReshapeParts :
            /\ Len(p[1]) + Len(p[2]) <= 2
            /\ Prod(p[1]) * Prod(p[2]) = off}
        \cup {<<<<off + 1>>, <<>>>>}

\* the entries a slicing may name for an axis of extent n that is not the
\* distributed one
OffAxisEntries(n) ==
    {FullSlice, PySlice(Some(1), None, None), PyInt(n - 1)}

\* the entries for the distributed axis of local extent n: all of it, or
\* an index or a sub-slice of the local section
DistAxisEntries(n) ==
    {FullSlice, PySlice(Some(0), Some(n), None), PyInt(0)}

\* the index tuples of a slicing of an array of the given shape whose
\* distributed axis is the dax-th: the same on every rank but for the stop
\* of a slice spanning the local section
RECURSIVE IndexTuples(_, _, _)
IndexTuples(shape, dax, k) ==
    IF k > Len(shape) THEN {<<>>}
    ELSE {<<e>> \o t :
             e \in (IF k = dax THEN DistAxisEntries(0)
                    ELSE OffAxisEntries(shape[k])),
             t \in IndexTuples(shape, dax, k + 1)}

\* the tuple rank q passes: slice(0, local extent) where v spans the section
LocalTuple(self, v) ==
    LET dax == PyIdx(Len(self.shape), self.axis) + 1
    IN  IF v[dax] = PySlice(Some(0), Some(0), None)
        THEN [v EXCEPT ![dax] = PySlice(Some(0), Some(self.shape[dax]), None)]
        ELSE v

HasArray == darr # <<>> /\ lastop.depth < MaxDepth

\* no operation was made yet
Fresh == lastop.op = "none"

\* the operation `name` handed back results[r] on every rank r
Finish(name, results, wrapped, shapes, axis) ==
    /\ made' = results
    /\ darr' = IF \A r \in Ranks : results[r].res = "ok"
               THEN [r \in Ranks |-> results[r].arr]
               ELSE darr
    /\ lastop' = [op |-> name, wrap |-> wrapped, shapes |-> shapes, axis |-> axis,
                  depth |-> IF HasArray /\ \A r \in Ranks : results[r].res = "ok"
                            THEN lastop.depth + 1 ELSE lastop.depth]
    /\ UNCHANGED <<redistVars, gatherVars, resolveVars, laterVars>>

Allocate ==
    /\ Fresh
    /\ \E global_shape \in DimShapes, comm \in Comms :
         \E axis \in AxesOf(global_shape) :
            Finish("allocate",
                   [r \in Ranks |->
                       Ok(MPIArray_alloc(global_shape, axis, comm, size, r))],
                   FALSE, <<>>, 0)

\* every rank wraps a buffer; the buffers agree off the axis and have any
\* extent along it
Wrap ==
    /\ Fresh
    /\ \E base \in DimShapes, comm \in Comms :
         \E axis \in AxesOf(base), ext \in [Ranks -> 0..MaxDim] :
            LET shapes == [r \in Ranks |-> SetAt(base, axis, ext[r])]
            IN  Finish("wrap",
                       [r \in Ranks |-> wrap(shapes, axis, comm, size, r)],
                       TRUE, shapes, axis)

Redistribute ==
    /\ HasArray
    /\ \E axis \in AxesOf(darr[0].shape) :
          Finish("redistribute",
                 [r \in Ranks |-> redistribute_result(darr, axis, size, r)],
                 FALSE, <<>>, 0)

Transpose ==
    /\ HasArray
    /\ \E axes \in {<<>>} \cup AxisOrders(Len(darr[0].shape)) :
          Finish("transpose",
                 [r \in Ranks |-> MPIArray_transpose(darr[r], axes, size, r)],
                 FALSE, <<>>, 0)

Reshape ==
    /\ HasArray
    /\ \E p \in ReshapeArgs(darr[0]) :
          Finish("reshape",
                 [r \in Ranks |->
                     MPIArray_reshape(darr[r], p[1], p[2], size, r)],
                 FALSE, <<>>, 0)

Copy ==
    /\ HasArray
    /\ Finish("copy", [r \in Ranks |-> MPIArray_copy(darr, size, r)],
              TRUE, [r \in Ranks |-> darr[r].shape], darr[0].axis)

Elementwise ==
    /\ HasArray
    /\ Finish("ufunc",
              [r \in Ranks |-> array_ufunc(darr, <<>>, "__call__", None, FALSE,
                                       size, r)],
              TRUE, [r \in Ranks |-> darr[r].shape], darr[0].axis)

\* np.<ufunc>.reduce(x, axis=kwaxis, keepdims=keepdims)
Reduce ==
    /\ HasArray
    /\ \E keepdims \in BOOLEAN,
          kwaxis \in {None} \cup {Some(a) : a \in (0 - Len(darr[0].shape))
                                                  ..(Len(darr[0].shape) - 1)} :
          Finish("reduce",
                 [r \in Ranks |->
                     array_ufunc(darr, <<>>, "reduce", kwaxis, keepdims,
                                 size, r)],
                 ~ufunc_raises(darr[0], "reduce", kwaxis),
                 ufunc_wrap_shapes(darr, "reduce", kwaxis, keepdims, size),
                 ufunc_wrap_axis(darr[0], "reduce", kwaxis, keepdims))

GetItem ==
    /\ HasArray
    /\ \E v \in IndexTuples(darr[0].shape,
                           PyIdx(Len(darr[0].shape), darr[0].axis) + 1, 1) :
          Finish("getitem",
                 [r \in Ranks |->
                     MPIArray_getitem(darr[r], LocalTuple(darr[r], v), size, r)],
                 FALSE, <<>>, 0)

InitMeta ==
    /\ size \in MetaSizes
    /\ darr = <<>>
    /\ made = <<>>
    /\ lastop = [op |-> "none", wrap |-> FALSE, shapes |-> <<>>, axis |-> 0,
                 depth |-> 0]
    /\ typeok = TRUE /\ maxfail = 0 /\ newaxis = <<>> /\ arr = <<>>
    /\ heap = <<>> /\ pc = <<>> /\ requests_send = <<>>
    /\ requests_recv = <<>> /\ buffers = <<>> /\ chan = <<>>
    /\ nIsend = <<>> /\ nIrecv = <<>> /\ nbar = <<>> /\ nwait = <<>>
    /\ errlog = <<>> /\ failed = {} /\ snap = <<>> /\ path = <<>>
    /\ IdleGather /\ IdleResolve /\ IdleLater

NextMeta ==
    \/ Allocate
    \/ Wrap
    \/ Redistribute
    \/ Transpose
    \/ Reshape
    \/ Copy
    \/ Elementwise
    \/ Reduce
    \/ GetItem

SpecMeta == InitMeta /\ [][NextMeta]_vars

(***************************************************************************)
(* MPIArray.gather: lines 1137-1191, one process per rank.  Rank `target`  *)
(* receives the local section of every rank ri in turn and places it at    *)
(* ri's part of the result; rank ri sends its section to the target.       *)
(***************************************************************************)
\* the result of gather, allgather or a global fetch on a rank: None, or an
\* ndarray of a shape with its elements
NoData == [kind |-> "none", shape |-> <<>>, data |-> <<>>]

NdArray(shape, data) == [kind |-> "ndarray", shape |-> shape, data |-> data]

\* lines 1162-1164: the shape of the buffer that receives rank ri's section
gather_tshape(self, sz, ri) ==
    SetAt(self.global_shape, self.axis,
          split_all(At(self.global_shape, self.axis), sz).num[ri])

\* mutant of gather_dest_slice: every section is taken to start at ri times
\* its own extent
gather_dest_slice_scaled(self, sz, ri) ==
    LET n == split_all(At(self.global_shape, self.axis), sz).num[ri]
    IN  <<ri * n, ri * n + n>>

\* lines 1155-1157 and 1188: slice(s, e) of rank ri along the distributed axis
gather_dest_slice(self, sz, ri) ==
    LET splits == split_all(At(self.global_shape, self.axis), sz)
    IN  <<splits.start[ri], splits.end[ri]>>

\* lines 1187-1189: arr[dest_slice] = tbuf
gather_place(out, self, sz, ri, tbuf) ==
    LET se == gather_dest_slice(self, sz, ri)
    IN  [c \in Box(self.global_shape) |->
            IF se[1] <= At(c, self.axis) /\ At(c, self.axis) < se[2]
            THEN tbuf[SetAt(c, self.axis, At(c, self.axis) - se[1])]
            ELSE out[c]]

\* lines 1150-1153: the target makes the result array, the others None
GatherEnter(r) ==
    /\ pc[r] = "call"
    /\ IF r = target
       THEN /\ gathered' = [gathered EXCEPT ![r] =
                   NdArray(Self(r).global_shape,
                           [c \in Box(Self(r).global_shape) |-> Garbage])]
            /\ pc' = [pc EXCEPT ![r] = "gather_post"]
       ELSE /\ gathered' = [gathered EXCEPT ![r] = NoData]
            /\ pc' = [pc EXCEPT ![r] = "gather_send"]
    /\ gi' = [gi EXCEPT ![r] = 0]
    /\ UNCHANGED <<target, chan, nIsend, nIrecv>>
    /\ UNCHANGED <<size, typeok, maxfail, newaxis, arr, heap, requests_send,
                   requests_recv, buffers, nbar, nwait, errlog, failed, snap,
                   path>>
    /\ UNCHANGED <<metaVars, resolveVars, laterVars>>

\* line 1171 on a rank other than the target: in iteration ri = r the rank
\* sends its local section; the other iterations do nothing there, and the
\* call returns None
GatherSend(r) ==
    /\ pc[r] = "gather_send"
    /\ chan' = [chan EXCEPT ![<<r, target>>] =
                   Append(@, flatten(heap[r][Self(r).base], Self(r).local_shape))]
    /\ nIsend' = [nIsend EXCEPT ![<<r, target>>] = @ + 1]
    /\ gi' = [gi EXCEPT ![r] = size]
    /\ pc' = [pc EXCEPT ![r] = "done"]
    /\ UNCHANGED <<target, gathered, nIrecv>>
    /\ UNCHANGED <<size, typeok, maxfail, newaxis, arr, heap, requests_send,
                   requests_recv, buffers, nbar, nwait, errlog, failed, snap,
                   path>>
    /\ UNCHANGED <<metaVars, resolveVars, laterVars>>

\* lines 1159-1171 on the target, iteration ri = gi: the receive from ri is
\* posted, and in its own iteration the target sends its section to itself
GatherPost(r) ==
    /\ pc[r] = "gather_post"
    /\ nIrecv' = [nIrecv EXCEPT ![<<gi[r], r>>] = @ + 1]
    /\ IF gi[r] = r
       THEN /\ chan' = [chan EXCEPT ![<<r, r>>] =
                   Append(@, flatten(heap[r][Self(r).base], Self(r).local_shape))]
            /\ nIsend' = [nIsend EXCEPT ![<<r, r>>] = @ + 1]
       ELSE UNCHANGED <<chan, nIsend>>
    /\ pc' = [pc EXCEPT ![r] = "gather_wait"]
    /\ UNCHANGED <<target, gi, gathered>>
    /\ UNCHANGED <<size, typeok, maxfail, newaxis, arr, heap, requests_send,
                   requests_recv, buffers, nbar, nwait, errlog, failed, snap,
                   path>>
    /\ UNCHANGED <<metaVars, resolveVars, laterVars>>

\* lines 1173-1191 on the target: request.Wait returns once the message of
\* ri has arrived in tbuf, which is placed in the result; after the last
\* iteration the result is returned
GatherWait(r) ==
    /\ pc[r] = "gather_wait"
    /\ chan[<<gi[r], r>>] # <<>>
    /\ LET tshape == gather_tshape(Self(r), size, gi[r])
           msg    == Head(chan[<<gi[r], r>>])
           se     == gather_dest_slice(Self(r), size, gi[r])
       IN  IF /\ Len(msg) = Prod(tshape)
              /\ se[2] - se[1] = At(tshape, Self(r).axis)
              /\ se[2] <= At(Self(r).global_shape, Self(r).axis)
           THEN /\ gathered' = [gathered EXCEPT ![r].data =
                       gather_place(@, Self(r), size, gi[r],
                                    RecvInto(msg, tshape))]
                /\ gi' = [gi EXCEPT ![r] = @ + 1]
                /\ pc' = [pc EXCEPT ![r] =
                       IF gi[r] + 1 = size THEN "done" ELSE "gather_post"]
           ELSE /\ pc' = [pc EXCEPT ![r] = "raised"]
                /\ UNCHANGED <<gathered, gi>>
    /\ chan' = [chan EXCEPT ![<<gi[r], r>>] = Tail(@)]
    /\ nwait' = [nwait EXCEPT ![r] = @ + 1]
    /\ UNCHANGED <<target, nIsend, nIrecv>>
    /\ UNCHANGED <<size, typeok, maxfail, newaxis, arr, heap, requests_send,
                   requests_recv, buffers, nbar, errlog, failed, snap,
                   path>>
    /\ UNCHANGED <<metaVars, resolveVars, laterVars>>

GatherSizes == {1, 2, 3, 4}

\* the shapes of the gathered arrays: the two-axis shapes and (8, 3)
GatherShapes == Shapes \cup {<<8, 3>>}

\* every rank holds A = MPIArray(global_shape, axis), filled with the global
\* labels or with the rank's id, and calls A.gather(rank=target); no
\* completion is reported as failed
InitGather ==
    /\ size \in GatherSizes
    /\ target \in Ranks
    /\ \E shape \in GatherShapes, axis \in 0..1 :
          arr = [r \in Ranks |-> <<MPIArray_new(shape, axis, size, r, 1)>>]
    /\ \E byrank \in BOOLEAN :
          heap = [r \in Ranks |->
                    <<IF byrank THEN [c \in Box(arr[r][1].local_shape) |-> r]
                      ELSE LabelData(arr[r][1])>>]
    /\ pc = [r \in Ranks |-> "call"]
    /\ gi = [r \in Ranks |-> 0]
    /\ gathered = [r \in Ranks |-> NoData]
    /\ chan = [p \in Pairs |-> <<>>]
    /\ nIsend = [p \in Pairs |-> 0]
    /\ nIrecv = [p \in Pairs |-> 0]
    /\ nwait = [r \in Ranks |-> 0]
    /\ typeok = TRUE /\ maxfail = 0 /\ newaxis = <<>>
    /\ requests_send = <<>> /\ requests_recv = <<>> /\ buffers = <<>>
    /\ nbar = <<>> /\ errlog = <<>> /\ failed = {} /\ snap = <<>>
    /\ path = <<>>
    /\ IdleMeta /\ IdleResolve /\ IdleLater

NextGather ==
    \/ \E r \in Ranks : GatherEnter(r)
    \/ \E r \in Ranks : GatherSend(r)
    \/ \E r \in Ranks : GatherPost(r)
    \/ \E r \in Ranks : GatherWait(r)

SpecGather == InitGather /\ [][NextGather]_vars

(***************************************************************************)
(* _global_resolver: lines 254-375.  An index expression is a tuple of     *)
(* int, slice and Ellipsis entries; an int or slice alone is the tuple of  *)
(* that one entry.                                                         *)
(***************************************************************************)
PyEllipsis ==
    [kind |-> "ellipsis", i |-> 0, start |-> None, stop |-> None, step |-> None]

\* None as an entry of a resolved tuple
PyNone ==
    [kind |-> "none", i |-> 0, start |-> None, stop |-> None, step |-> None]

\* lines 274-289: the tuple with one entry per axis
RECURSIVE expand_ellipsis(_, _)
expand_ellipsis(slobj, fill) ==
    IF slobj = <<>> THEN <<>>
    ELSE IF Head(slobj).kind = "ellipsis"
    THEN [k \in 1..fill |-> FullSlice] \o expand_ellipsis(Tail(slobj), fill)
    ELSE <<Head(slobj)>> \o expand_ellipsis(Tail(slobj), fill)

slice_list(slobj, ndim) ==
    LET hasell == \E k \in 1..Len(slobj) : slobj[k].kind = "ellipsis"
        withell == IF Len(slobj) < ndim /\ ~hasell
                   THEN Append(slobj, PyEllipsis) ELSE slobj
    IN  expand_ellipsis(withell, ndim - Len(withell) + 1)

\* mutant of resolve_index: the global index is used as the local one
resolve_index_global(i, offset) == i

\* line 296: index = slice_list[self.axis] - self.offset
resolve_index(i, offset) == i - offset

\* lines 295-300: an integer on the distributed axis
resolve_int(entry, offset, local_length) ==
    LET index == resolve_index(entry.i, offset)
    IN  IF index < 0 \/ index >= local_length THEN PyNone ELSE PyInt(index)

\* mutant of resolve_bound: a negative bound is not resolved against the
\* global extent
resolve_bound_raw(x, length, offset, default) ==
    IF x.some THEN x.v - offset ELSE default

\* lines 305-342: a slice on the distributed axis
resolve_bound(x, length, offset, default) ==
    IF x.some THEN (IF x.v >= 0 THEN x.v ELSE x.v + length) - offset
    ELSE default

resolve_slice_entry(s, length, offset, local_length) ==
    LET start == resolve_bound(s.start, length, offset, 0)
        stop  == resolve_bound(s.stop, length, offset, local_length)
    IN  IF start >= local_length \/ stop < 0 THEN PyNone
        ELSE PySlice(Some(Max(Min(start, local_length), 0)),
                     Some(Max(Min(stop, local_length), 0)), s.step)

\* mutant of resolve_fullslice: a present stop does not clear the flag
resolve_fullslice_ignores_stop(entry) ==
    /\ entry.kind # "int"
    /\ entry.kind = "slice" => ~entry.start.some /\ ~entry.step.some

\* lines 291-333: whether the selection takes all of the distributed axis
resolve_fullslice(entry) ==
    /\ entry.kind # "int"
    /\ entry.kind = "slice" =>
          ~entry.start.some /\ ~entry.stop.some /\ ~entry.step.some

\* _resolve_slice(slobj) for the array self (metadata and buffer shape)
resolve_slice(self, slobj) ==
    LET sl     == slice_list(slobj, Len(self.local_shape))
        entry  == At(sl, self.axis)
        offset == At(self.local_offset, self.axis)
        length == At(self.global_shape, self.axis)
        local_length == At(self.local_shape, self.axis)
    IN  [slobj |-> IF entry.kind = "int"
                   THEN SetAt(sl, self.axis,
                              resolve_int(entry, offset, local_length))
                   ELSE IF entry.kind = "slice"
                   THEN SetAt(sl, self.axis,
                              resolve_slice_entry(entry, length, offset,
                                                  local_length))
                   ELSE sl,
         fullslice |-> resolve_fullslice(entry)]

\* _global_resolver.__getitem__, lines 346-365; a selection that takes all
\* of the distributed axis is handed to MPIArray.__getitem__
resolver_getitem(self, data, slobj, sz, rank) ==
    LET res == resolve_slice(self, slobj)
    IN  IF ~res.fullslice
        THEN IF At(res.slobj, self.axis).kind = "none"
             THEN [res |-> "none", val |-> NoData, meta |-> NoArr]
             ELSE IF ~np_getitem_ok(self.local_shape, res.slobj)
             THEN [res |-> "raised", val |-> NoData, meta |-> NoArr]
             ELSE [res |-> "ndarray",
                   val |-> NdArray(np_getitem_shape(self.local_shape, res.slobj),
                                   np_getitem(data, self.local_shape, res.slobj)),
                   meta |-> NoArr]
        ELSE LET v == [k \in 1..Len(res.slobj) |->
                          IF res.slobj[k].kind = "none" THEN FullSlice
                          ELSE res.slobj[k]]
                 m == MPIArray_getitem(
                          [shape |-> self.local_shape,
                           global_shape |-> self.global_shape,
                           axis |-> self.axis,
                           local_shape |-> self.local_shape,
                           local_offset |-> self.local_offset,
                           comm |-> "world"], v, sz, rank)
             IN  IF m.res # "ok"
                 THEN [res |-> m.res, val |-> NoData, meta |-> NoArr]
                 ELSE [res |-> "mpiarray",
                       val |-> NdArray(np_getitem_shape(self.local_shape, v),
                                       np_getitem(data, self.local_shape, v)),
                       meta |-> m.arr]

\* rank r evaluates A.global_slice[sel]
Fetch(r) ==
    /\ pc[r] = "call"
    /\ fetched' = [fetched EXCEPT ![r] =
          [resolved |-> resolve_slice(Self(r), sel),
           out |-> resolver_getitem(Self(r), heap[r][Self(r).base], sel, size, r)]]
    /\ pc' = [pc EXCEPT ![r] = "done"]
    /\ UNCHANGED <<sel, assigned>>
    /\ UNCHANGED <<size, typeok, maxfail, newaxis, arr, heap, requests_send,
                   requests_recv, buffers, chan, nIsend, nIrecv, nbar, nwait,
                   errlog, failed, snap, path>>
    /\ UNCHANGED <<metaVars, gatherVars, laterVars>>

\* ndarray.__setitem__(v, value) for a value with every element x: the
\* elements v selects become x
np_setitem(data, shape, v, x) ==
    LET written == {np_getitem_src(c, shape, v) :
                       c \in Box(np_getitem_shape(shape, v))}
    IN  [g \in DOMAIN data |-> IF g \in written THEN x ELSE data[g]]

\* the shape of the value a rank assigns: a scalar, an array of the shape
\* of the rank's own part of the selection, or an array of the shape of the
\* selection of the global array
ValueKinds == {"scalar", "local", "global"}

value_shape(self, slobj, kind) ==
    LET res == resolve_slice(self, slobj)
    IN  IF kind = "scalar" THEN <<>>
        ELSE IF kind = "global"
        THEN np_getitem_shape(self.global_shape,
                              slice_list(slobj, Len(self.global_shape)))
        ELSE IF At(res.slobj, self.axis).kind = "none" THEN <<>>
        ELSE np_getitem_shape(self.local_shape, res.slobj)

\* the element the assigned values hold (line 78: global_slice[3] = 17);
\* the arrays hold the labels 1, 2, ... of at most MaxExtent * 2 elements
Assigned == 17

\* _global_resolver.__setitem__, lines 367-375, and MPIArray.__setitem__,
\* lines 469-470: the buffer afterwards and whether numpy raised
resolver_setitem(self, data, slobj, vshape) ==
    LET res == resolve_slice(self, slobj)
    IN  IF At(res.slobj, self.axis).kind = "none"
        THEN [raised |-> FALSE, data |-> data]
        ELSE IF ~np_getitem_ok(self.local_shape, res.slobj)
        THEN [raised |-> TRUE, data |-> data]
        ELSE IF /\ vshape # <<>>
                /\ ~Broadcastable(vshape,
                                  np_getitem_shape(self.local_shape, res.slobj))
        THEN [raised |-> TRUE, data |-> data]
        ELSE [raised |-> FALSE,
              data |-> np_setitem(data, self.local_shape, res.slobj, Assigned)]

\* rank r evaluates A.global_slice[sel] = value
Assign(r) ==
    /\ pc[r] = "assign"
    /\ LET out == resolver_setitem(Self(r), heap[r][Self(r).base], sel,
                                   value_shape(Self(r), sel, assigned[r].value))
       IN  /\ assigned' = [assigned EXCEPT ![r].raised = out.raised]
           /\ heap' = [heap EXCEPT ![r][Self(r).base] = out.data]
    /\ pc' = [pc EXCEPT ![r] = "assigned"]
    /\ UNCHANGED <<sel, fetched>>
    /\ UNCHANGED <<size, typeok, maxfail, newaxis, arr, requests_send,
                   requests_recv, buffers, chan, nIsend, nIrecv, nbar, nwait,
                   errlog, failed, snap, path>>
    /\ UNCHANGED <<metaVars, gatherVars, laterVars>>

ResolveSizes == {1, 2, 3}

\* the entries a global selection may name for the distributed axis of
\* extent n: the integers -n..n and slices with bounds among None and
\* -(n+1)..n+1 and steps None, 1 and 2
GlobalEntries(n) ==
    LET bounds == {None} \cup {Some(x) : x \in (0 - n - 1)..(n + 1)}
    IN  {PyInt(i) : i \in (0 - n)..n}
            \cup {PySlice(a, b, c) : a \in bounds, b \in bounds,
                                     c \in {None, Some(1), Some(2)}}

\* the entries for the other axis, of extent 2
OtherEntries == {FullSlice, PyInt(1), PySlice(Some(1), None, None)}

\* the index expressions: one entry per axis, the entry of axis 0 alone,
\* or the entry of axis 1 after an Ellipsis
Selections(axis, n) ==
    {IF axis = 0 THEN <<d, o>> ELSE <<o, d>> :
         d \in GlobalEntries(n), o \in OtherEntries}
        \cup (IF axis = 0 THEN {<<d>> : d \in GlobalEntries(n)}
              ELSE {<<PyEllipsis, d>> : d \in GlobalEntries(n)})

\* every rank holds A = MPIArray(global_shape, axis) of extent n along the
\* distributed axis and 2 along the other, filled with the global labels,
\* and evaluates A.global_slice[sel] or A.global_slice[sel] = value for the
\* same sel and the same kind of value
InitResolve ==
    /\ size \in ResolveSizes
    /\ \E n \in 1..MaxExtent, axis \in 0..1 :
          /\ arr = [r \in Ranks |->
                      <<MPIArray_new(IF axis = 0 THEN <<n, 2>> ELSE <<2, n>>,
                                     axis, size, r, 1)>>]
          /\ sel \in Selections(axis, n)
    /\ heap = [r \in Ranks |-> <<LabelData(arr[r][1])>>]
    /\ \E op \in {"fetch"} \cup ValueKinds :
          /\ pc = [r \in Ranks |-> IF op = "fetch" THEN "call" ELSE "assign"]
          /\ assigned = [r \in Ranks |-> [value |-> op, raised |-> FALSE]]
    /\ fetched = [r \in Ranks |-> <<>>]
    /\ typeok = TRUE /\ maxfail = 0 /\ newaxis = <<>>
    /\ requests_send = <<>> /\ requests_recv = <<>> /\ buffers = <<>>
    /\ chan = <<>> /\ nIsend = <<>> /\ nIrecv = <<>> /\ nbar = <<>>
    /\ nwait = <<>> /\ errlog = <<>> /\ failed = {} /\ snap = <<>>
    /\ path = <<>>
    /\ IdleMeta /\ IdleGather /\ IdleLater

NextResolve ==
    \/ \E r \in Ranks : Fetch(r)
    \/ \E r \in Ranks : Assign(r)

SpecResolve == InitResolve /\ [][NextResolve]_vars

(***************************************************************************)
(* Dispatch of a ufunc with the data: np.add applied to an MPIArray whose  *)
(* buffer holds the global labels (heap[r][1] on rank r), as x + x (+ x)   *)
(* with further MPIArrays of the same contents, as np.add.reduce (sum) or  *)
(* as np.add.accumulate (cumsum).  The buffer of the result is appended to *)
(* the rank's heap; lastop records the call.                               *)
(***************************************************************************)
\* the coordinate c with j put in as axis a
Insert(c, a, j) == SubSeq(c, 1, a) \o <<j>> \o SubSeq(c, a + 1, Len(c))

\* the shape without axis a
Remove(shape, a) == SubSeq(shape, 1, a) \o SubSeq(shape, a + 2, Len(shape))

\* np.add.reduce(data, axis=a) for 0 <= a < ndim
np_sum_axis(data, shape, a) ==
    [c \in Box(Remove(shape, a)) |->
        SumBelow([j \in 0..(At(shape, a) - 1) |-> data[Insert(c, a, j)]],
                 At(shape, a))]

\* np.add.reduce(data, axis=None): the sum of all elements
RECURSIVE np_sum_all(_, _)
np_sum_all(data, shape) ==
    IF shape = <<>> THEN data[<<>>]
    ELSE np_sum_all(np_sum_axis(data, shape, 0), Tail(shape))

\* np.add.reduce(data, axis=kwaxis, keepdims=keepdims)
np_add_reduce(data, shape, kwaxis, keepdims) ==
    IF ~kwaxis.some
    THEN [c \in Box(ufunc_result_shape(shape, "reduce", kwaxis, keepdims)) |->
             np_sum_all(data, shape)]
    ELSE LET a == PyIdx(Len(shape), kwaxis.v)
         IN  IF keepdims
             THEN [c \in Box(SetAt(shape, a, 1)) |->
                      np_sum_axis(data, shape, a)[Remove(c, a)]]
             ELSE np_sum_axis(data, shape, a)

\* np.add.accumulate(data, axis=kwaxis)
np_add_accumulate(data, shape, kwaxis) ==
    LET a == PyIdx(Len(shape), kwaxis.v)
    IN  [c \in Box(shape) |->
            SumBelow([j \in 0..At(c, a) |-> data[SetAt(c, a, j)]],
                     At(c, a) + 1)]

\* lines 1397 and 1433-1438: the buffer handed to wrap, for nin inputs that
\* all hold data; a scalar result is reshaped to (1,)
ufunc_result(data, shape, nin, method, kwaxis, keepdims) ==
    IF method = "__call__" THEN [c \in Box(shape) |-> nin * data[c]]
    ELSE IF method = "accumulate" THEN np_add_accumulate(data, shape, kwaxis)
    ELSE IF ufunc_result_shape(shape, method, kwaxis, keepdims) = <<>>
    THEN [c \in Box(<<1>>) |-> np_sum_all(data, shape)]
    ELSE np_add_reduce(data, shape, kwaxis, keepdims)

\* every rank makes the same call on its array; the ranks that get a result
\* keep its buffer
Dispatched(others, method, kwaxis, keepdims) ==
    /\ lastop.op = "none"
    /\ made' = [r \in Ranks |->
                   array_ufunc(darr, others, method, kwaxis, keepdims, size, r)]
    /\ heap' = [r \in Ranks |->
                   IF made'[r].res = "ok"
                   THEN Append(heap[r],
                               ufunc_result(heap[r][1], darr[r].shape,
                                            1 + Len(others), method, kwaxis,
                                            keepdims))
                   ELSE heap[r]]
    /\ lastop' = [op |-> method, others |-> others, kwaxis |-> kwaxis,
                  keepdims |-> keepdims]
    /\ UNCHANGED <<size, typeok, maxfail, newaxis, arr, pc, requests_send,
                   requests_recv, buffers, chan, nIsend, nIrecv, nbar, nwait,
                   errlog, failed, snap, path>>
    /\ UNCHANGED <<darr, gatherVars, resolveVars, laterVars>>

\* the axis keywords a call may pass for an array of nd axes
AxisArgs(nd) == {Some(a) : a \in (0 - nd)..(nd - 1)}

\* x + y + ... : the further MPIArray inputs, none to two, each distributed
\* over any axis
DispatchCall ==
    \E others \in UNION {[1..k -> AxesOf(darr[0].shape)] : k \in 0..2} :
        Dispatched(others, "__call__", None, FALSE)

\* x.sum(axis=kwaxis, keepdims=keepdims)
DispatchReduce ==
    \E kwaxis \in {None} \cup AxisArgs(Len(darr[0].shape)),
       keepdims \in BOOLEAN :
        Dispatched(<<>>, "reduce", kwaxis, keepdims)

\* np.add.accumulate(x, axis=kwaxis)
DispatchAccumulate ==
    \E kwaxis \in AxisArgs(Len(darr[0].shape)) :
        Dispatched(<<>>, "accumulate", kwaxis, FALSE)

DispatchSizes == {1, 2, 3}

\* global shapes of one to three axes with extents 1..MaxDim
DispatchShapes == UNION {[1..d -> 1..MaxDim] : d \in 1..3}

\* every rank holds x = MPIArray(global_shape, axis=axis) filled with the
\* global labels
InitDispatch ==
    /\ size \in DispatchSizes
    /\ \E global_shape \in DispatchShapes :
         \E axis \in AxesOf(global_shape) :
            darr = [r \in Ranks |->
                       MPIArray_alloc(global_shape, axis, "world", size, r)]
    /\ heap = [r \in Ranks |-> <<LabelData(darr[r])>>]
    /\ made = [r \in Ranks |-> Plain]
    /\ lastop = [op |-> "none", others |-> <<>>, kwaxis |-> None,
                 keepdims |-> FALSE]
    /\ typeok = TRUE /\ maxfail = 0 /\ newaxis = <<>> /\ arr = <<>>
    /\ pc = <<>> /\ requests_send = <<>>
    /\ requests_recv = <<>> /\ buffers = <<>> /\ chan = <<>>
    /\ nIsend = <<>> /\ nIrecv = <<>> /\ nbar = <<>> /\ nwait = <<>>
    /\ errlog = <<>> /\ failed = {} /\ snap = <<>> /\ path = <<>>
    /\ IdleGather /\ IdleResolve /\ IdleLater

NextDispatch ==
    \/ DispatchCall
    \/ DispatchReduce
    \/ DispatchAccumulate

SpecDispatch == InitDispatch /\ [][NextDispatch]_vars

(***************************************************************************)
(* The communication of __array_ufunc__, one process per rank.  A call     *)
(* either returns without wrapping a result ("local": an AxisException,    *)
(* lines 1379-1385, method "at", line 1404, or a given `out`, lines        *)
(* 1423-1430) or hands its result to MPIArray.wrap ("wrap", lines          *)
(* 1433-1438), which calls mpiutil.allreduce twice (lines 680 and 687).    *)
(* mpiutil is not among the source files: allreduce is the communicator's  *)
(* all-reduce the specification names, which a rank leaves once every rank *)
(* of the communicator has entered the same call.                          *)
(*   coll.prog[r]     the calls rank r still has to make, in order         *)
(*   coll.pc[r]       rank r's position in its current call                *)
(*   coll.entered[r]  the allreduce calls rank r has entered               *)
(*   coll.wrapped[r]  the calls of rank r that returned a wrapped result   *)
(***************************************************************************)
UfuncPaths == {"local", "wrap"}

\* the allreduce call rank r is in has been entered by every rank
AllreduceComplete(r) ==
    \A q \in Ranks : coll.entered[q] >= coll.entered[r]

\* lines 1379-1430: the call returns or raises without wrapping a result
UfuncLocal(r) ==
    /\ coll.pc[r] = "idle"
    /\ coll.prog[r] # <<>>
    /\ Head(coll.prog[r]) = "local"
    /\ coll' = [coll EXCEPT !.prog[r] = Tail(@)]
    /\ UNCHANGED <<arrayVars, h5, mgr>>

\* lines 1379-1397 and 1433-1438: the primitive ran on the local buffer and
\* the result is handed to MPIArray.wrap
UfuncWrap(r) ==
    /\ coll.pc[r] = "idle"
    /\ coll.prog[r] # <<>>
    /\ Head(coll.prog[r]) = "wrap"
    /\ coll' = [coll EXCEPT !.prog[r] = Tail(@), !.pc[r] = "wrap"]
    /\ UNCHANGED <<arrayVars, h5, mgr>>

\* line 680: totallen = mpiutil.allreduce(axlen, comm=comm), entered
WrapTotallen(r) ==
    /\ coll.pc[r] = "wrap"
    /\ coll' = [coll EXCEPT !.entered[r] = @ + 1, !.pc[r] = "totallen"]
    /\ UNCHANGED <<arrayVars, h5, mgr>>

\* mutant of WrapLayoutIssue: the layout is checked on the rank's own
\* extent and the rank returns
WrapLayoutIssue_local(r) ==
    /\ coll.pc[r] = "totallen"
    /\ AllreduceComplete(r)
    /\ coll' = [coll EXCEPT !.wrapped[r] = @ + 1, !.pc[r] = "idle"]
    /\ UNCHANGED <<arrayVars, h5, mgr>>

\* lines 680-687: the first allreduce returned; layout_issue =
\* mpiutil.allreduce(axlen != local_num, op=MAX), entered
WrapLayoutIssue(r) ==
    /\ coll.pc[r] = "totallen"
    /\ AllreduceComplete(r)
    /\ coll' = [coll EXCEPT !.entered[r] = @ + 1, !.pc[r] = "layout"]
    /\ UNCHANGED <<arrayVars, h5, mgr>>

\* lines 687-708: the second allreduce returned; wrap raises or returns
WrapReturn(r) ==
    /\ coll.pc[r] = "layout"
    /\ AllreduceComplete(r)
    /\ coll' = [coll EXCEPT !.wrapped[r] = @ + 1, !.pc[r] = "idle"]
    /\ UNCHANGED <<arrayVars, h5, mgr>>

CollSizes == {1, 2, 3}

\* the programs of a rank: up to MaxCalls calls
UfuncPrograms == UNION {[1..k -> UfuncPaths] : k \in 0..MaxCalls}

\* every rank has its own sequence of calls to make
InitColl ==
    /\ size \in CollSizes
    /\ \E prog \in [Ranks -> UfuncPrograms] :
          coll = [prog |-> prog,
                  pc |-> [r \in Ranks |-> "idle"],
                  entered |-> [r \in Ranks |-> 0],
                  wrapped |-> [r \in Ranks |-> 0]]
    /\ IdleArrays /\ IdleH5 /\ IdleMgr

NextColl ==
    \/ \E r \in Ranks : UfuncLocal(r)
    \/ \E r \in Ranks : UfuncWrap(r)
    \/ \E r \in Ranks : WrapTotallen(r)
    \/ \E r \in Ranks : WrapLayoutIssue(r)
    \/ \E r \in Ranks : WrapReturn(r)

SpecColl == InitColl /\ [][NextColl]_vars

(***************************************************************************)
(* MPIArray._partition_io: lines 1284-1331.  The threshold is held in      *)
(* bytes (threshold_bytes, line 1303).  One process per rank:              *)
(*   h5.global_shape, h5.axis, h5.itemsize   the array every rank holds    *)
(*   h5.threshold     threshold_bytes                                      *)
(*   h5.skip          the skip argument                                    *)
(*   h5.plan[r]       what the call returned on rank r                     *)
(***************************************************************************)
\* np.ceil(a / b) for a >= 0 and b > 0
CeilDiv(a, b) == (a + b - 1) \div b

\* ndarray.nbytes of a buffer of the given shape
nbytes(local_shape, itemsize) == itemsize * Prod(local_shape)

\* line 1304: self.comm.allreduce(self.nbytes, op=MPI.MAX); vals[q] is the
\* value rank q passes
allreduce_max(vals) ==
    CHOOSE m \in {vals[q] : q \in DOMAIN vals} :
        \A q \in DOMAIN vals : vals[q] <= m

\* the sizes of the local buffers of an array over a communicator of sz ranks
local_nbytes(global_shape, axis, itemsize, sz) ==
    [q \in 0..(sz - 1) |->
        nbytes(MPIArray_new(global_shape, axis, sz, q, 0).local_shape, itemsize)]

NoPlan == [res |-> "none", split_axis |-> 0, partitions |-> <<>>]

Planned(split_axis, partitions) ==
    [res |-> "ok", split_axis |-> split_axis, partitions |-> partitions]

PlanRaised == [res |-> "raised", split_axis |-> 0, partitions |-> <<>>]

\* lines 1312-1322: the axes the loop may stop at
split_axes(self, num_split) ==
    {a \in 0..(Len(self.global_shape) - 1) :
        a # self.axis /\ At(self.global_shape, a) >= num_split}

\* lines 1327-1331: slice(start, end) for every part of split_m
split_slices(n, num_split) ==
    [k \in 1..num_split |->
        PySlice(Some(split_m(n, num_split).start[k - 1]),
                Some(split_m(n, num_split).end[k - 1]), None)]

\* lines 1303-1331, with largest_size the result of the allreduce
partition_io(self, largest_size, skip, threshold_bytes) ==
    LET num_split == CeilDiv(largest_size, threshold_bytes)
    IN  IF skip \/ num_split = 1
        THEN Planned(0, <<PySlice(Some(0), Some(At(self.local_shape, 0)), None)>>)
        ELSE IF Len(self.global_shape) = 1 THEN PlanRaised
        ELSE IF split_axes(self, num_split) = {} THEN PlanRaised
        \* line 1328: mpiutil.split_m(n, 0) divides by the number of parts
        ELSE IF num_split = 0 THEN PlanRaised
        ELSE LET split_axis == CHOOSE a \in split_axes(self, num_split) :
                                  \A b \in split_axes(self, num_split) : a <= b
             IN  Planned(split_axis,
                         split_slices(At(self.global_shape, split_axis), num_split))

\* rank r calls _partition_io on its array
PartitionIo(r) ==
    /\ h5.plan[r] = NoPlan
    /\ h5' = [h5 EXCEPT !.plan[r] =
                 partition_io(
                     MPIArray_new(h5.global_shape, h5.axis, size, r, 0),
                     allreduce_max(local_nbytes(h5.global_shape, h5.axis,
                                                h5.itemsize, size)),
                     h5.skip, h5.threshold)]
    /\ UNCHANGED <<arrayVars, coll, mgr>>

PlanSizes == {1, 2}

ItemSizes == {1, 2}

\* global shapes of one to three axes, empty axes included
PlanShapes ==
    UNION {[1..d -> 0..MaxExtent] : d \in 1..3}

InitPlan ==
    /\ size \in PlanSizes
    /\ \E shape \in PlanShapes, itemsize \in ItemSizes,
          threshold \in 1..MaxThreshold, skip \in BOOLEAN :
          \E axis \in 0..(Len(shape) - 1) :
              h5 = [global_shape |-> shape,
                    axis |-> axis,
                    itemsize |-> itemsize,
                    threshold |-> threshold,
                    skip |-> skip,
                    plan |-> [r \in Ranks |-> NoPlan]]
    /\ IdleArrays /\ IdleColl /\ IdleMgr

NextPlan == \E r \in Ranks : PartitionIo(r)

SpecPlan == InitPlan /\ [][NextPlan]_vars

(***************************************************************************)
(* MPIArray.to_hdf5 (lines 961-1044, h5py built with MPI) and              *)
(* MPIArray.from_hdf5 (lines 868-959), one process per rank.  The file     *)
(* argument f is a file name, an open file on the MPI-parallel transport   *)
(* or an open file on a serial transport; misc.open_h5py_mpi is not among  *)
(* the source files: it hands back the file with the capability flag       *)
(* is_mpi the specification names.  The elements of the array written are  *)
(* the labels 1, 2, ... of its global coordinates; a dataset is created    *)
(* holding the fill value 0, and an array is allocated holding Garbage.    *)
(*   h5.global_shape, h5.axis   the array every rank writes                *)
(*   h5.raxis, h5.sel           the axis and sel arguments of the read     *)
(*   h5.f, h5.compression       the file and compression arguments         *)
(*   h5.itemsize, h5.threshold  element size, threshold_bytes              *)
(*   h5.file          whether the dataset exists, its shape and elements   *)
(*   h5.wrote[r]      the outcome of to_hdf5 on rank r                     *)
(*   h5.got[r]        the outcome of from_hdf5 on rank r                   *)
(***************************************************************************)
FileArgs == {"filename", "mpi file", "serial file"}

open_h5py_mpi(f, use_mpi) ==
    [is_mpi |-> IF f = "filename" THEN use_mpi ELSE f = "mpi file"]

\* _expand_sel, lines 1568-1574; the empty tuple stands for None as well
expand_sel(tsel, naxis) ==
    tsel \o [k \in 1..(naxis - Len(tsel)) |-> FullSlice]

\* _len_slice, lines 1544-1547
len_slice(slice_, n) ==
    1 + ((SliceStop(slice_, n) - SliceStart(slice_, n) - 1)
             \div SliceStep(slice_))

\* slice.indices(n) for any step but 0: start, stop and step as Python
\* adjusts them to an axis of length n
slice_indices(slice_, n) ==
    LET step  == IF slice_.step.some THEN slice_.step.v ELSE 1
        lower == IF step < 0 THEN 0 - 1 ELSE 0
        upper == IF step < 0 THEN n - 1 ELSE n
        adjust(x, default) ==
            IF ~x.some THEN default
            ELSE LET y == IF x.v < 0 THEN x.v + n ELSE x.v
                 IN  IF y < lower THEN lower ELSE IF y > upper THEN upper ELSE y
    IN  [start |-> adjust(slice_.start, IF step < 0 THEN upper ELSE lower),
         stop  |-> adjust(slice_.stop, IF step < 0 THEN lower ELSE upper),
         step  |-> step]

\* _reslice, lines 1550-1565, for a subslice without a step
reslice(slice_, n, subslice) ==
    LET d == slice_indices(slice_, n)
    IN  PySlice(Some(d.start + subslice.start.v * d.step),
                Some(Min(d.start + subslice.stop.v * d.step, d.stop)),
                Some(d.step))

\* mutant of partition_sel: the file-side slice of the split axis is the
\* partition itself
partition_sel_no_reslice(tsel, split_axis, n, slice_) ==
    [islice |-> SetAt(tsel, split_axis, slice_),
     fslice |-> SetAt([k \in 1..Len(tsel) |-> FullSlice], split_axis, slice_)]

\* _partition_sel, lines 1507-1541
partition_sel(tsel, split_axis, n, slice_) ==
    [islice |-> SetAt(tsel, split_axis, reslice(At(tsel, split_axis), n, slice_)),
     fslice |-> SetAt([k \in 1..Len(tsel) |-> FullSlice], split_axis, slice_)]

\* target[v] = value for arrays of one shape
np_assign(data, shape, v, value) ==
    [g \in DOMAIN data |->
        IF \E c \in Box(np_getitem_shape(shape, v)) : np_getitem_src(c, shape, v) = g
        THEN value[CHOOSE c \in Box(np_getitem_shape(shape, v)) :
                       np_getitem_src(c, shape, v) = g]
        ELSE data[g]]

NoOutcome ==
    [res |-> "todo", collective |-> FALSE, plan |-> NoPlan, sel |-> <<>>,
     arr |-> NoArr, buf |-> <<>>]

\* lines 1036-1041: dset[islice] = self[fslice] for every partition
RECURSIVE write_parts(_, _, _, _, _, _, _)
write_parts(data, self, buf, tsel, split_axis, parts, sz) ==
    IF parts = <<>> THEN [res |-> "ok", data |-> data]
    ELSE LET ps == partition_sel(tsel, split_axis,
                                 At(self.global_shape, split_axis), Head(parts))
         IN  IF \/ MPIArray_getitem(self, ps.fslice, sz, 0).res = "raised"
                \/ np_getitem_shape(self.global_shape, ps.islice)
                       # np_getitem_shape(self.local_shape, ps.fslice)
             THEN [res |-> "raised", data |-> data]
             ELSE write_parts(
                      np_assign(data, self.global_shape, ps.islice,
                                np_getitem(buf, self.local_shape, ps.fslice)),
                      self, buf, tsel, split_axis, Tail(parts), sz)

\* mutant of to_hdf5_use_collective: a requested compression is not
\* looked at
to_hdf5_use_collective_axis(is_mpi, no_null_slices, axis, compression) ==
    is_mpi /\ no_null_slices /\ axis > 0

\* lines 1016-1018
to_hdf5_use_collective(is_mpi, no_null_slices, axis, compression) ==
    is_mpi /\ no_null_slices /\ (axis > 0 \/ compression)

\* lines 991-1044 on one rank: data are the elements of the dataset before
\* the call (the fill value if the dataset is new)
to_hdf5(self, buf, data, f, compression, sz, itemsize, threshold_bytes) ==
    LET fh == open_h5py_mpi(f, TRUE)
        start == At(self.local_offset, self.axis)
        end == start + At(self.local_shape, self.axis)
        tsel == expand_sel([k \in 1..self.axis |-> FullSlice]
                              \o <<PySlice(Some(start), Some(end), None)>>,
                          Len(self.global_shape))
        no_null_slices == At(self.global_shape, self.axis) >= sz
        plan == partition_io(self,
                             allreduce_max(local_nbytes(self.global_shape,
                                                        self.axis, itemsize, sz)),
                             ~fh.is_mpi, threshold_bytes)
        use_collective == to_hdf5_use_collective(fh.is_mpi, no_null_slices,
                                                 self.axis, compression)
        done == write_parts(data, self, buf, tsel, plan.split_axis,
                            plan.partitions, sz)
    IN  IF plan.res = "raised"
        THEN [out |-> [NoOutcome EXCEPT !.res = "raised"], data |-> data,
              created |-> FALSE]
        ELSE [out |-> [NoOutcome EXCEPT !.res = done.res,
                                        !.collective = use_collective,
                                        !.plan = plan, !.sel = tsel],
              data |-> done.data, created |-> TRUE]

ToHdf5(r) ==
    /\ h5.wrote[r].res = "todo"
    /\ LET self == MPIArray_alloc(h5.global_shape, h5.axis, "world", size, r)
           call == to_hdf5(self, LabelData(self),
                           IF h5.file.exists THEN h5.file.data
                           ELSE [c \in Box(h5.global_shape) |-> 0],
                           h5.f, h5.compression, size, h5.itemsize, h5.threshold)
       IN  h5' = [h5 EXCEPT !.wrote[r] = call.out,
                            !.file = IF call.created
                                     THEN [exists |-> TRUE,
                                           shape |-> h5.global_shape,
                                           data |-> call.data]
                                     ELSE @]
    /\ UNCHANGED <<arrayVars, coll, mgr>>

\* lines 950-954: dist_arr[fslice] = dset[islice] for every partition
RECURSIVE read_parts(_, _, _, _, _, _, _)
read_parts(buf, lshape, data, dshape, tsel, split_axis, parts) ==
    IF parts = <<>> THEN [res |-> "ok", buf |-> buf]
    ELSE LET ps == partition_sel(tsel, split_axis, At(dshape, split_axis),
                                 Head(parts))
         IN  IF np_getitem_shape(lshape, ps.fslice)
                    # np_getitem_shape(dshape, ps.islice)
             THEN [res |-> "raised", buf |-> buf]
             ELSE read_parts(
                      np_assign(buf, lshape, ps.fslice,
                                np_getitem(data, dshape, ps.islice)),
                      lshape, data, dshape, tsel, split_axis, Tail(parts))

\* line 944
from_hdf5_use_collective(is_mpi, no_null_slices, axis) ==
    is_mpi /\ no_null_slices /\ axis > 0

\* line 919: np.ndarray.__new__ refuses a negative extent
alloc_raises(gshape, axis, sz, rank) ==
    \E k \in 1..Len(gshape) :
        MPIArray_new(gshape, axis, sz, rank, 0).local_shape[k] < 0

\* lines 895-959 on one rank, for an axis in range
from_hdf5(data, dshape, f, axis, sel0, sz, rank, itemsize, threshold_bytes) ==
    LET fh == open_h5py_mpi(f, axis > 0)
        naxis == Len(dshape)
        sel1 == expand_sel(sel0, naxis)
        gshape == [k \in 1..naxis |-> len_slice(sel1[k], dshape[k])]
        dist_arr == MPIArray_alloc(gshape, axis, "world", sz, rank)
        lstart == At(dist_arr.local_offset, axis)
        lend == lstart + At(dist_arr.local_shape, axis)
        tsel == SetAt(sel1, axis,
                     reslice(At(sel1, axis), At(dshape, axis),
                             PySlice(Some(lstart), Some(lend), None)))
        plan == partition_io(dist_arr,
                             allreduce_max(local_nbytes(gshape, axis, itemsize, sz)),
                             ~fh.is_mpi, threshold_bytes)
        no_null_slices == At(dist_arr.global_shape, axis) >= sz
        use_collective == from_hdf5_use_collective(fh.is_mpi, no_null_slices, axis)
        done == read_parts([c \in Box(dist_arr.local_shape) |-> Garbage],
                           dist_arr.local_shape, data, dshape, tsel,
                           plan.split_axis, plan.partitions)
    IN  IF alloc_raises(gshape, axis, sz, rank)
        THEN [NoOutcome EXCEPT !.res = "raised"]
        \* line 1304: the allreduce is not entered by a rank that raised
        ELSE IF \E q \in 0..(sz - 1) : alloc_raises(gshape, axis, sz, q)
        THEN [NoOutcome EXCEPT !.res = "blocked"]
        ELSE IF plan.res = "raised"
        THEN [NoOutcome EXCEPT !.res = "raised"]
        ELSE [res |-> done.res, collective |-> use_collective, plan |-> plan,
              sel |-> tsel, arr |-> dist_arr, buf |-> done.buf]

FromHdf5(r) ==
    /\ h5.got[r].res = "todo"
    /\ h5.file.exists
    /\ \A q \in Ranks : h5.wrote[q].res \in {"ok", "none"}
    /\ h5' = [h5 EXCEPT !.got[r] =
                 from_hdf5(h5.file.data, h5.file.shape, h5.f, h5.raxis, h5.sel,
                           size, r, h5.itemsize, h5.threshold)]
    /\ UNCHANGED <<arrayVars, coll, mgr>>

H5Sizes == {1, 2}

\* global shapes of one or two axes
H5Shapes == UNION {[1..d -> 1..MaxExtent] : d \in 1..2}

\* an array is written and then read back without a selection
InitH5 ==
    /\ size \in H5Sizes
    /\ \E shape \in H5Shapes, itemsize \in ItemSizes,
          threshold \in 1..MaxThreshold, f \in FileArgs,
          compression \in BOOLEAN :
          \E axis \in 0..(Len(shape) - 1), raxis \in 0..(Len(shape) - 1) :
              h5 = [global_shape |-> shape, axis |-> axis, raxis |-> raxis,
                    sel |-> <<>>, f |-> f, compression |-> compression,
                    itemsize |-> itemsize, threshold |-> threshold,
                    file |-> [exists |-> FALSE, shape |-> <<>>, data |-> <<>>],
                    wrote |-> [r \in Ranks |-> NoOutcome],
                    got |-> [r \in Ranks |-> NoOutcome]]
    /\ IdleArrays /\ IdleColl /\ IdleMgr

NextH5 ==
    \/ \E r \in Ranks : ToHdf5(r)
    \/ \E r \in Ranks : FromHdf5(r)

SpecH5 == InitH5 /\ [][NextH5]_vars


(***************************************************************************)
(* MPIArray.from_hdf5 with a selection (tests/test_selection_parallel.py,  *)
(* lines 59-105): a dataset of two axes that holds the labels of its       *)
(* coordinates is read over axis 0 with a slice for axis 0 and, possibly,  *)
(* a slice for axis 1.                                                     *)
(***************************************************************************)
\* slice(start, stop, step) with a positive step
SelSlices(n, steps) ==
    {PySlice(Some(a), Some(b), Some(c)) : a \in 0..n, b \in 0..n, c \in steps}

SelectSizes == {1, 2, 4}

SelectShapes == {<<n, 2>> : n \in 1..(MaxExtent + 1)}

SelectThresholds == {2, MaxThreshold + 2}

InitSelect ==
    /\ size \in SelectSizes
    /\ \E dshape \in SelectShapes, threshold \in SelectThresholds,
          f \in {"filename", "mpi file"} :
          \E s0 \in SelSlices(dshape[1], {1, 2}),
             rest \in {<<>>} \cup {<<s1>> : s1 \in SelSlices(dshape[2], {1})} :
              h5 = [global_shape |-> dshape, axis |-> 0, raxis |-> 0,
                    sel |-> <<s0>> \o rest, f |-> f, compression |-> FALSE,
                    itemsize |-> 1, threshold |-> threshold,
                    file |-> [exists |-> TRUE, shape |-> dshape,
                              data |-> [c \in Box(dshape) |-> Label(c, dshape)]],
                    wrote |-> [r \in Ranks |-> [NoOutcome EXCEPT !.res = "none"]],
                    got |-> [r \in Ranks |-> NoOutcome]]
    /\ IdleArrays /\ IdleColl /\ IdleMgr

NextSelect == \E r \in Ranks : FromHdf5(r)

SpecSelect == InitSelect /\ [][NextSelect]_vars


(***************************************************************************)
(* MPIArray._to_hdf5_serial: lines 1224-1282, one process per rank.  The   *)
(* array holds the labels of its global coordinates; redistribute(axis=0)  *)
(* hands back the array distributed over axis 0 with the same elements.    *)
(* comm.Barrier returns on a rank once every rank has entered the same     *)
(* barrier.                                                                *)
(*   h5.global_shape, h5.axis   the array every rank holds                 *)
(*   h5.create        the create argument                                  *)
(*   h5.file          whether the file and the dataset exist, the          *)
(*                    elements of the dataset, the ranks that have the     *)
(*                    file open                                            *)
(*   h5.pc[r]         rank r's position in the call                        *)
(*   h5.ri[r]         the loop variable ri of rank r                       *)
(*   h5.nbarrier[r]   the Barrier calls rank r has entered                 *)
(*   h5.rows[r]       the rows of the dataset rank r has written           *)
(*   h5.log           the opens, writes and closes of the file, in order   *)
(***************************************************************************)
BarrierComplete(r) ==
    \A q \in Ranks : h5.nbarrier[q] >= h5.nbarrier[r]

\* the array rank r writes from: lines 1265-1268
serial_dist_arr(r) ==
    redistribute_result(
        [q \in Ranks |->
            MPIArray_alloc(h5.global_shape, h5.axis, "world", size, q)],
        0, size, r).arr

\* line 1252: rank 0 opens the file; mode "r+" needs an existing file
SerialOpen ==
    /\ h5.pc[0] = "start"
    /\ IF h5.file.exists \/ h5.create
       THEN h5' = [h5 EXCEPT !.pc[0] = "create",
                             !.file.exists = TRUE,
                             !.file.open = @ \cup {0},
                             !.log = Append(@, <<"open", 0>>)]
       ELSE h5' = [h5 EXCEPT !.pc[0] = "raised"]
    /\ UNCHANGED <<arrayVars, coll, mgr>>

\* lines 1253-1257 and the end of the with block: the dataset is created
\* and filled with 0, or the call raises; the file is closed
SerialCreate ==
    /\ h5.pc[0] = "create"
    /\ IF h5.file.dataset
       THEN h5' = [h5 EXCEPT !.pc[0] = "raised",
                             !.file.open = @ \ {0},
                             !.log = Append(@, <<"close", 0>>)]
       ELSE h5' = [h5 EXCEPT !.pc[0] = "wait",
                             !.file.dataset = TRUE,
                             !.file.data = [c \in Box(h5.global_shape) |-> 0],
                             !.file.open = @ \ {0},
                             !.log = Append(Append(@, <<"create", 0>>),
                                            <<"close", 0>>)]
    /\ UNCHANGED <<arrayVars, coll, mgr>>

\* line 1250: the other ranks go on to the wait
SerialSkipCreate(r) ==
    /\ r # 0
    /\ h5.pc[r] = "start"
    /\ h5' = [h5 EXCEPT !.pc[r] = "wait"]
    /\ UNCHANGED <<arrayVars, coll, mgr>>

\* lines 1260-1263: the file is seen and the first Barrier is entered
SerialWait(r) ==
    /\ h5.pc[r] = "wait"
    /\ h5.file.exists
    /\ h5' = [h5 EXCEPT !.pc[r] = "barrier", !.nbarrier[r] = @ + 1]
    /\ UNCHANGED <<arrayVars, coll, mgr>>

\* lines 1263-1271: the Barrier returned; the array is redistributed over
\* axis 0 if need be and the loop starts
SerialEnterLoop(r) ==
    /\ h5.pc[r] = "barrier"
    /\ BarrierComplete(r)
    /\ h5' = [h5 EXCEPT !.pc[r] = "loop", !.ri[r] = 0]
    /\ UNCHANGED <<arrayVars, coll, mgr>>

\* lines 1274-1275: in its own iteration the rank opens the file
SerialLoopOpen(r) ==
    /\ h5.pc[r] = "loop"
    /\ h5.ri[r] = r
    /\ h5' = [h5 EXCEPT !.pc[r] = "write",
                        !.file.open = @ \cup {r},
                        !.log = Append(@, <<"open", r>>)]
    /\ UNCHANGED <<arrayVars, coll, mgr>>

\* lines 1277-1282: fh[dataset][start:end] = dist_arr, the file is closed
\* and the Barrier of the iteration is entered
SerialLoopWrite(r) ==
    /\ h5.pc[r] = "write"
    /\ LET dist_arr == serial_dist_arr(r)
           start == At(dist_arr.local_offset, 0)
           end == start + At(dist_arr.local_shape, 0)
       IN  h5' = [h5 EXCEPT
                     !.pc[r] = "loopbarrier",
                     !.file.data =
                         np_assign(@, h5.global_shape,
                                   expand_sel(<<PySlice(Some(start), Some(end), None)>>,
                                              Len(h5.global_shape)),
                                   LabelData(dist_arr)),
                     !.file.open = @ \ {r},
                     !.rows[r] = @ \cup start..(end - 1),
                     !.log = Append(Append(@, <<"write", r>>), <<"close", r>>),
                     !.nbarrier[r] = @ + 1]
    /\ UNCHANGED <<arrayVars, coll, mgr>>

\* lines 1274 and 1282: in another rank's iteration the Barrier is entered
SerialLoopSkip(r) ==
    /\ h5.pc[r] = "loop"
    /\ h5.ri[r] # r
    /\ h5' = [h5 EXCEPT !.pc[r] = "loopbarrier", !.nbarrier[r] = @ + 1]
    /\ UNCHANGED <<arrayVars, coll, mgr>>

\* mutant of SerialLoopNext: the iteration does not wait for the other ranks
SerialLoopNext_nowait(r) ==
    /\ h5.pc[r] = "loopbarrier"
    /\ h5' = [h5 EXCEPT !.ri[r] = @ + 1,
                        !.pc[r] = IF h5.ri[r] + 1 = size THEN "done" ELSE "loop"]
    /\ UNCHANGED <<arrayVars, coll, mgr>>

\* lines 1271 and 1282: the Barrier returned; next iteration or return
SerialLoopNext(r) ==
    /\ h5.pc[r] = "loopbarrier"
    /\ BarrierComplete(r)
    /\ h5' = [h5 EXCEPT !.ri[r] = @ + 1,
                        !.pc[r] = IF h5.ri[r] + 1 = size THEN "done" ELSE "loop"]
    /\ UNCHANGED <<arrayVars, coll, mgr>>

SerialSizes == {1, 2, 3}

\* the file may exist before the call, and the dataset in it
InitSerial ==
    /\ size \in SerialSizes
    /\ \E shape \in H5Shapes, create \in BOOLEAN, exists \in BOOLEAN,
          dataset \in BOOLEAN :
          \E axis \in 0..(Len(shape) - 1) :
              /\ dataset => exists
              /\ h5 = [global_shape |-> shape, axis |-> axis, create |-> create,
                       file |-> [exists |-> exists, dataset |-> dataset,
                                 data |-> <<>>, open |-> {}],
                       pc |-> [r \in Ranks |-> "start"],
                       ri |-> [r \in Ranks |-> 0],
                       nbarrier |-> [r \in Ranks |-> 0],
                       rows |-> [r \in Ranks |-> {}],
                       log |-> <<>>]
    /\ IdleArrays /\ IdleColl /\ IdleMgr

NextSerial ==
    \/ SerialOpen
    \/ SerialCreate
    \/ \E r \in Ranks : SerialSkipCreate(r)
    \/ \E r \in Ranks : SerialWait(r)
    \/ \E r \in Ranks : SerialEnterLoop(r)
    \/ \E r \in Ranks : SerialLoopOpen(r)
    \/ \E r \in Ranks : SerialLoopWrite(r)
    \/ \E r \in Ranks : SerialLoopSkip(r)
    \/ \E r \in Ranks : SerialLoopNext(r)

SpecSerial == InitSerial /\ [][NextSerial]_vars


(***************************************************************************)
(* The pipeline manager (caput/pipeline.py): Manager.run, lines 604-655,   *)
(* and the stages of a task, TaskBase._pipeline_advance_state, lines       *)
(* 1017-1052, _pipeline_next, lines 1054-1100, and                         *)
(* _pipeline_inspect_queue_product, lines 1102-1149.  A task is configured *)
(* with at most one 'requires' key, a list of 'in' keys and at most one    *)
(* 'out' key ("" for none).  Its setup() and finish() return None; the     *)
(* next() of a task without 'in' keys returns a product `emits` times and  *)
(* then raises PipelineStopIteration; the next() of a task with 'in' keys  *)
(* returns a product for every set of inputs.                              *)
(*   mgr.cfg[i]       the configuration of task i                          *)
(*   mgr.task[i]      _pipeline_state, _requires, _in of task i and the    *)
(*                    products its next() has still to return              *)
(*   mgr.tasks        self.tasks                                           *)
(*   mgr.pass         what the for loop has still to visit of its copy of  *)
(*                    self.tasks                                           *)
(*   mgr.pc           "while", "for", "returned" or "raised"               *)
(*   mgr.log          the calls of setup, next and finish, the forced      *)
(*                    advances and the removals, in order                  *)
(***************************************************************************)
\* _setup_keys, lines 1010-1015, after the first _pipeline_advance_state
TaskInit(cfg) ==
    [state |-> "setup",
     requires |-> [deleted |-> FALSE, filled |-> FALSE],
     queues |-> [deleted |-> FALSE, q |-> [k \in 1..Len(cfg.in_) |-> <<>>]],
     left |-> cfg.emits,
     sent |-> 0]

\* mutant of pipeline_advance_state: a task that has finished goes back to
\* iterating
pipeline_advance_state_again(t) ==
    IF t.state = "setup"
    THEN [t EXCEPT !.requires.deleted = TRUE, !.state = "next"]
    ELSE IF t.state = "next"
    THEN [t EXCEPT !.queues.deleted = TRUE, !.state = "finish"]
    ELSE IF t.state = "finish" /\ t.left = 0 /\ t.queues.q = <<>>
    THEN [t EXCEPT !.state = "next", !.left = 1]
    ELSE IF t.state = "finish" THEN [t EXCEPT !.state = "raise"]
    ELSE t

\* _pipeline_advance_state, lines 1027-1052
pipeline_advance_state(t) ==
    IF t.state = "setup"
    THEN [t EXCEPT !.requires.deleted = TRUE, !.state = "next"]
    ELSE IF t.state = "next"
    THEN [t EXCEPT !.queues.deleted = TRUE, !.state = "finish"]
    ELSE IF t.state = "finish" THEN [t EXCEPT !.state = "raise"]
    ELSE t

\* mutant of missing_data: the input queues are not looked at
missing_data_setup_only(t, cfg) ==
    t.state = "setup" /\ cfg.requires # "" /\ ~t.requires.filled

\* _pipeline_next raises _PipelineMissingData: lines 1064-1066, 1073-1075
missing_data(t, cfg) ==
    \/ t.state = "setup" /\ cfg.requires # "" /\ ~t.requires.filled
    \/ t.state = "next" /\ \E k \in 1..Len(cfg.in_) : t.queues.q[k] = <<>>

\* mutant of inspect_queue_product: the product is put into the queue twice
inspect_queue_product_twice(t, cfg, key, product) ==
    IF cfg.requires = key /\ (t.requires.deleted \/ t.requires.filled)
    THEN [err |-> TRUE, t |-> t]
    ELSE [err |-> FALSE,
          t |-> [t EXCEPT !.requires.filled = @ \/ cfg.requires = key,
                          !.queues.q =
                             [k \in 1..Len(cfg.in_) |->
                                 IF cfg.in_[k] = key
                                 THEN @[k] \o <<product, product>> ELSE @[k]]]]

\* _pipeline_inspect_queue_product, lines 1112-1149, for one key and its
\* product
inspect_queue_product(t, cfg, key, product) ==
    IF cfg.requires = key /\ (t.requires.deleted \/ t.requires.filled)
    THEN [err |-> TRUE, t |-> t]
    ELSE LET t1 == IF cfg.requires = key
                   THEN [t EXCEPT !.requires.filled = TRUE] ELSE t
         IN  IF (\E k \in 1..Len(cfg.in_) : cfg.in_[k] = key) /\ t1.queues.deleted
             THEN [err |-> TRUE, t |-> t1]
             ELSE [err |-> FALSE,
                   t |-> [t1 EXCEPT !.queues.q =
                             [k \in 1..Len(cfg.in_) |->
                                 IF cfg.in_[k] = key
                                 THEN Append(@[k], product) ELSE @[k]]]]

\* mutant of hand_out: the product is handed to the first task of the list
\* only
hand_out_first_only(task, cfg, receivers, key, product) ==
    IF receivers = <<>> THEN [err |-> FALSE, task |-> task]
    ELSE LET got == inspect_queue_product(task[Head(receivers)],
                                          cfg[Head(receivers)], key, product)
         IN  [err |-> got.err,
              task |-> IF got.err THEN task
                       ELSE [task EXCEPT ![Head(receivers)] = got.t]]

\* lines 653-655: the product is handed to the tasks of the list, in order
RECURSIVE hand_out(_, _, _, _, _)
hand_out(task, cfg, receivers, key, product) ==
    IF receivers = <<>> THEN [err |-> FALSE, task |-> task]
    ELSE LET got == inspect_queue_product(task[Head(receivers)],
                                          cfg[Head(receivers)], key, product)
         IN  IF got.err THEN [err |-> TRUE, task |-> task]
             ELSE hand_out([task EXCEPT ![Head(receivers)] = got.t], cfg,
                           Tail(receivers), key, product)

Visited == Head(mgr.pass)

\* line 621: while self.tasks: for task in list(self.tasks)
RunPass ==
    /\ mgr.pc = "while"
    /\ mgr.tasks # <<>>
    /\ mgr' = [mgr EXCEPT !.pc = "for", !.pass = mgr.tasks]
    /\ UNCHANGED <<arrayVars, coll, h5>>

\* line 621: the task list is empty and run returns
RunReturn ==
    /\ mgr.pc = "while"
    /\ mgr.tasks = <<>>
    /\ mgr' = [mgr EXCEPT !.pc = "returned"]
    /\ UNCHANGED <<arrayVars, coll, h5>>

\* the for loop goes on to the next task of its copy, or the copy is done
AfterVisit == IF Tail(mgr.pass) = <<>> THEN "while" ELSE "for"

\* lines 1063-1070 and 646-648: setup() is called and returns None
VisitSetup ==
    /\ mgr.pc = "for"
    /\ mgr.task[Visited].state = "setup"
    /\ ~missing_data(mgr.task[Visited], mgr.cfg[Visited])
    /\ mgr' = [mgr EXCEPT !.task[Visited] = pipeline_advance_state(@),
                          !.log = Append(@, <<"setup", Visited>>),
                          !.pass = Tail(@),
                          !.pc = AfterVisit]
    /\ UNCHANGED <<arrayVars, coll, h5>>

\* mutant of VisitMissing: the first task of the list is not advanced
VisitMissing_no_advance ==
    /\ mgr.pc = "for"
    /\ missing_data(mgr.task[Visited], mgr.cfg[Visited])
    /\ mgr' = [mgr EXCEPT !.pass = <<>>, !.pc = "while"]
    /\ UNCHANGED <<arrayVars, coll, h5>>

\* lines 634-643: _PipelineMissingData; the first task of the list is
\* advanced; the for loop is left
VisitMissing ==
    /\ mgr.pc = "for"
    /\ missing_data(mgr.task[Visited], mgr.cfg[Visited])
    /\ IF Head(mgr.tasks) = Visited
       THEN mgr' = [mgr EXCEPT !.task[Visited] = pipeline_advance_state(@),
                               !.log = Append(@, <<"advance", Visited>>),
                               !.pass = <<>>,
                               !.pc = "while"]
       ELSE mgr' = [mgr EXCEPT !.pass = <<>>, !.pc = "while"]
    /\ UNCHANGED <<arrayVars, coll, h5>>

\* lines 1076-1083 and 646-655: next() is called with one product of every
\* input queue, or without arguments, and returns; what it returns is
\* handed out under the task's 'out' key
VisitNext ==
    /\ mgr.pc = "for"
    /\ mgr.task[Visited].state = "next"
    /\ ~missing_data(mgr.task[Visited], mgr.cfg[Visited])
    /\ mgr.cfg[Visited].in_ # <<>> \/ mgr.task[Visited].left > 0
    /\ LET q == mgr.task[Visited].queues.q
           \* lines 1079-1081: args += (in_.get(),)
           args == [k \in DOMAIN q |-> IF q[k] = <<>> THEN <<>> ELSE Head(q[k])]
           \* what next() returns: the product number sent + 1 of the task
           out == <<Visited, mgr.task[Visited].sent + 1>>
           called == [mgr.task EXCEPT
                         ![Visited].queues.q =
                             [k \in DOMAIN @ |-> SubSeq(@[k], 2, Len(@[k]))],
                         ![Visited].left =
                             IF mgr.cfg[Visited].in_ = <<>> THEN @ - 1 ELSE @,
                         ![Visited].sent =
                             IF mgr.cfg[Visited].out = "" THEN @ ELSE @ + 1]
           given == hand_out(called, mgr.cfg, mgr.tasks, mgr.cfg[Visited].out,
                             out)
           entry == <<"next", Visited, [k \in DOMAIN q |-> Len(q[k])], args,
                      IF mgr.cfg[Visited].out = "" THEN <<>> ELSE <<out>> >>
       IN  IF mgr.cfg[Visited].out = ""
           THEN mgr' = [mgr EXCEPT !.task = called,
                                   !.log = Append(@, entry),
                                   !.pass = Tail(@),
                                   !.pc = AfterVisit]
           ELSE mgr' = [mgr EXCEPT !.task = given.task,
                                   !.log = Append(@, entry),
                                   !.produced = @ \cup {mgr.cfg[Visited].out},
                                   !.pass = IF given.err THEN <<>> ELSE Tail(@),
                                   !.pc = IF given.err THEN "raised"
                                          ELSE AfterVisit]
    /\ UNCHANGED <<arrayVars, coll, h5>>

\* lines 1084-1087: next() raises PipelineStopIteration
VisitStop ==
    /\ mgr.pc = "for"
    /\ mgr.task[Visited].state = "next"
    /\ mgr.cfg[Visited].in_ = <<>>
    /\ mgr.task[Visited].left = 0
    /\ mgr' = [mgr EXCEPT !.task[Visited] = pipeline_advance_state(@),
                          !.log = Append(@, <<"next", Visited, <<>>, <<>>, <<>>>>),
                          !.pass = Tail(@),
                          !.pc = AfterVisit]
    /\ UNCHANGED <<arrayVars, coll, h5>>

\* lines 1088-1093: finish() is called and returns None
VisitFinish ==
    /\ mgr.pc = "for"
    /\ mgr.task[Visited].state = "finish"
    /\ mgr' = [mgr EXCEPT !.task[Visited] = pipeline_advance_state(@),
                          !.log = Append(@, <<"finish", Visited>>),
                          !.pass = Tail(@),
                          !.pc = AfterVisit]
    /\ UNCHANGED <<arrayVars, coll, h5>>

\* lines 1094-1095 and 644-646: _PipelineFinished; the task is removed
VisitFinished ==
    /\ mgr.pc = "for"
    /\ mgr.task[Visited].state = "raise"
    /\ mgr' = [mgr EXCEPT !.tasks = SelectSeq(@, LAMBDA i : i # Visited),
                          !.log = Append(@, <<"remove", Visited>>),
                          !.pass = Tail(@),
                          !.pc = AfterVisit]
    /\ UNCHANGED <<arrayVars, coll, h5>>

\* the product keys; a product of key "a" may be turned into one of key "b"
TaskConfig(requires, in_, out, emits) ==
    [requires |-> requires, in_ |-> in_, out |-> out, emits |-> emits]

TaskKinds ==
    {TaskConfig("", <<>>, out, n) : out \in {"", "a", "b"}, n \in 0..MaxProducts}
        \cup {TaskConfig("a", <<>>, "", 1)}
        \cup {TaskConfig("", <<"a">>, out, 0) : out \in {"", "b"}}
        \cup {TaskConfig("", in_, "", 0) : in_ \in {<<"b">>, <<"a", "b">>}}

\* lines 230-256: GetEggs, CookEggs, DoNothing and PrintEggs with three eggs
DocExample ==
    <<TaskConfig("", <<>>, "a", 3), TaskConfig("", <<"a">>, "", 0),
      TaskConfig("", <<"b">>, "", 0), TaskConfig("", <<>>, "", 3)>>

\* _validate_task, lines 718-731, for every task of a configuration read by
\* from_yaml_str: what a task takes is the 'out' key of some task.  A list
\* built with add_task, lines 809-834, is not checked across tasks.
validate_task(cfg) ==
    \A i \in 1..Len(cfg) :
        \A key \in {cfg[i].in_[k] : k \in 1..Len(cfg[i].in_)}
                        \cup ({cfg[i].requires} \ {""}) :
            \E j \in 1..Len(cfg) : cfg[j].out = key

\* the task lists run is called with, built from a configuration or with
\* add_task
PipelineConfigs ==
    UNION {[1..n -> TaskKinds] : n \in 1..3} \cup {DocExample}

InitPipeline ==
    /\ size = 1
    /\ \E cfg \in PipelineConfigs :
          mgr = [cfg |-> cfg,
                 task |-> [i \in 1..Len(cfg) |-> TaskInit(cfg[i])],
                 tasks |-> [i \in 1..Len(cfg) |-> i],
                 pass |-> <<>>,
                 pc |-> "while",
                 produced |-> {},
                 log |-> <<>>]
    /\ IdleArrays /\ IdleColl /\ IdleH5

NextPipeline ==
    \/ RunPass
    \/ RunReturn
    \/ VisitSetup
    \/ VisitMissing
    \/ VisitNext
    \/ VisitStop
    \/ VisitFinish
    \/ VisitFinished

SpecPipeline == InitPipeline /\ [][NextPipeline]_vars

\* run is one sequential loop: as long as a statement of it can be executed,
\* one is
SpecPipelineFair ==
    InitPipeline /\ [][NextPipeline]_vars /\ WF_vars(NextPipeline)


(***************************************************************************)
(* What a stage returns (caput/pipeline.py): Manager.run, lines 646-655,   *)
(* with Manager._check_task_output, lines 657-690, and the loop over the   *)
(* keys of _pipeline_inspect_queue_product, lines 1112-1114.  A stage of   *)
(* a task has returned `out`: None, or a sequence of elements.  The task's *)
(* 'out' keys were given as a list, or as one key, which                   *)
(* _format_product_keys, lines 1720-1724, makes a tuple of length 1.       *)
(*   mgr.out_keys, mgr.is_tuple   task._out_keys                           *)
(*   mgr.out                      what the stage returned                  *)
(*   mgr.cfg, mgr.task            the tasks of self.tasks and their queues *)
(*   mgr.checked                  what _check_task_output returned         *)
(*   mgr.pc   "returned", "checked", "continue" (nothing to hand out),     *)
(*            "delivered", "raised" (PipelineRuntimeError) or              *)
(*            "index error" (IndexError of products[ii])                   *)
(***************************************************************************)
\* what a stage returns: None, or a sequence of elements
NoOutput == [some |-> FALSE, v |-> <<>>]

Output(v) == [some |-> TRUE, v |-> v]

\* _check_task_output, lines 672-690
check_task_output(out, out_keys, is_tuple) ==
    IF ~out.some THEN [raised |-> FALSE, out |-> NoOutput]
    ELSE IF Len(out_keys) = 0 THEN [raised |-> FALSE, out |-> NoOutput]
    ELSE IF Len(out_keys) = 1
    THEN IF is_tuple THEN [raised |-> FALSE, out |-> Output(<<out.v>>)]
         ELSE [raised |-> FALSE, out |-> out]
    ELSE IF Len(out_keys) # Len(out.v) THEN [raised |-> TRUE, out |-> NoOutput]
    ELSE [raised |-> FALSE, out |-> out]

\* lines 1112-1149: for ii in range(n_keys), for one receiving task;
\* products[ii] of a sequence that is too short raises IndexError
RECURSIVE inspect_queue_products(_, _, _, _, _)
inspect_queue_products(t, cfg, keys, products, ii) ==
    IF ii > Len(keys) THEN [err |-> "", t |-> t]
    ELSE IF ii > Len(products) THEN [err |-> "index error", t |-> t]
    ELSE LET got == inspect_queue_product(t, cfg, keys[ii], products[ii])
         IN  IF got.err THEN [err |-> "raised", t |-> got.t]
             ELSE inspect_queue_products(got.t, cfg, keys, products, ii + 1)

\* lines 654-655: for receiving_task in self.tasks, from task number n on
RECURSIVE hand_out_all(_, _, _, _, _)
hand_out_all(task, cfg, keys, products, n) ==
    IF n > Len(task) THEN [err |-> "", task |-> task]
    ELSE LET got == inspect_queue_products(task[n], cfg[n], keys, products, 1)
         IN  IF got.err # "" THEN [err |-> got.err, task |-> task]
             ELSE hand_out_all([task EXCEPT ![n] = got.t], cfg, keys,
                               products, n + 1)

\* line 648: out = self._check_task_output(out, task)
CheckOutput ==
    /\ mgr.pc = "returned"
    /\ LET got == check_task_output(mgr.out, mgr.out_keys, mgr.is_tuple)
       IN  mgr' = [mgr EXCEPT !.checked = got.out,
                              !.pc = IF got.raised THEN "raised"
                                     ELSE IF got.out.some THEN "checked"
                                     ELSE "continue"]
    /\ UNCHANGED <<arrayVars, coll, h5>>

\* lines 649-655: the output is handed to every task of the list
HandOut ==
    /\ mgr.pc = "checked"
    /\ LET got == hand_out_all(mgr.task, mgr.cfg, mgr.out_keys,
                               mgr.checked.v, 1)
       IN  mgr' = [mgr EXCEPT !.task = got.task,
                              !.pc = IF got.err = "" THEN "delivered"
                                     ELSE got.err]
    /\ UNCHANGED <<arrayVars, coll, h5>>

\* the keys of the products
ProductKeys == {"a", "b"}

\* 'out' given as a list of no, one or two keys
OutKeyLists == UNION {[1..n -> ProductKeys] : n \in 0..2}

\* what a stage returns: None, or a sequence of 0 to MaxProducts + 1
\* elements
StageOutputs ==
    {NoOutput} \cup {Output([e \in 1..n |-> e]) : n \in 0..(MaxProducts + 1)}

\* the tasks of the list take one product key each for next()
ReceiverLists ==
    UNION {[1..n -> {TaskConfig("", <<key>>, "", 0) : key \in ProductKeys}] :
               n \in 1..2}

InitOutput ==
    /\ size = 1
    /\ \E out_keys \in OutKeyLists, is_tuple \in BOOLEAN,
          out \in StageOutputs, cfg \in ReceiverLists :
          /\ is_tuple => Len(out_keys) = 1
          /\ mgr = [out_keys |-> out_keys,
                    is_tuple |-> is_tuple,
                    out |-> out,
                    cfg |-> cfg,
                    task |-> [i \in 1..Len(cfg) |-> TaskInit(cfg[i])],
                    checked |-> NoOutput,
                    pc |-> "returned"]
    /\ IdleArrays /\ IdleColl /\ IdleH5

NextOutput ==
    \/ CheckOutput
    \/ HandOut

SpecOutput == InitOutput /\ [][NextOutput]_vars


(***************************************************************************)
(* _reslice (caput/mpiarray.py, lines 1550-1565) called on its own: a      *)
(* slice over an axis of length n and a sub-range slice(a, b) of the       *)
(* elements it selects.                                                    *)
(*   h5.n, h5.slice_, h5.subslice   the arguments                          *)
(*   h5.res                         the slice returned                     *)
(*   h5.pc                          "call" or "done"                       *)
(***************************************************************************)
\* the positions of an axis of length n that axis[slice_] selects, in order
Selects(slice_, n) ==
    LET d   == slice_indices(slice_, n)
        cnt == IF d.step > 0
               THEN IF d.stop > d.start
                    THEN ((d.stop - d.start - 1) \div d.step) + 1 ELSE 0
               ELSE IF d.start > d.stop
                    THEN ((d.start - d.stop - 1) \div (0 - d.step)) + 1 ELSE 0
    IN  [k \in 1..cnt |-> d.start + (k - 1) * d.step]

Reslice ==
    /\ h5.pc = "call"
    /\ h5' = [h5 EXCEPT !.res = reslice(h5.slice_, h5.n, h5.subslice),
                        !.pc = "done"]
    /\ UNCHANGED <<arrayVars, coll, mgr>>

\* the steps of a slice: None, forwards and backwards
ResliceSteps == {None, Some(1), Some(2), Some(0 - 1), Some(0 - 2)}

\* a bound of a slice over an axis of length n: None, or an integer from
\* before the axis to behind it
ResliceBounds(n) == {None} \cup {Some(x) : x \in (0 - n - 1)..(n + 1)}

InitReslice ==
    /\ size = 1
    /\ \E n \in 0..MaxExtent :
          \E start \in ResliceBounds(n), stop \in ResliceBounds(n),
             step \in ResliceSteps :
             \E a \in 0..n, b \in 0..n :
                /\ a <= b
                /\ b <= Len(Selects(PySlice(start, stop, step), n))
                /\ h5 = [n |-> n,
                         slice_ |-> PySlice(start, stop, step),
                         subslice |-> PySlice(Some(a), Some(b), None),
                         res |-> FullSlice,
                         pc |-> "call"]
    /\ IdleArrays /\ IdleColl /\ IdleMgr

NextReslice == Reslice

SpecReslice == InitReslice /\ [][NextReslice]_vars


(***************************************************************************)
(* MPIArray.__array_ufunc__ (lines 1339-1440) called with an `out` array:  *)
(* np.add or np.multiply of a two-axis array with itself ("__call__"), or  *)
(* their reduce along the axis keyword, placed into an MPIArray of the     *)
(* shape of the result.  The buffers are the local ones of one rank, row   *)
(* by row; the input holds the labels 1, 2, ... and the output zeros.      *)
(*   coll.self, coll.out          the input and the output array           *)
(*   coll.ufunc, coll.method      the operation                            *)
(*   coll.kwaxis, coll.keepdims   its keywords                             *)
(*   coll.res                     "" before the call, then "ok",           *)
(*                                "AxisException"                          *)
(*   coll.pc                      "call" or "done"                         *)
(***************************************************************************)
\* ufunc applied to the values f[0], ..., f[n - 1]
ufunc_fold(ufunc, f, n) ==
    IF ufunc = "add" THEN SumBelow(f, n)
    ELSE Prod([k \in 1..n |-> f[k - 1]])

\* line 1397, super().__array_ufunc__ with kwargs["out"] the view of the
\* local part of the output: the values the primitive leaves in that view
ufunc_primitive(ufunc, method, buf, shape, kwaxis) ==
    LET rows == shape[1]
        cols == shape[2]
        el(i, j) == buf[i * cols + j + 1]
    IN  IF method = "__call__"
        THEN [k \in 1..Len(buf) |-> ufunc_fold(ufunc, [i \in 0..1 |-> buf[k]], 2)]
        ELSE IF kwaxis.v = 0
        THEN [k \in 1..cols |->
                 ufunc_fold(ufunc, [i \in 0..(rows - 1) |-> el(i, k - 1)], rows)]
        ELSE [k \in 1..rows |->
                 ufunc_fold(ufunc, [j \in 0..(cols - 1) |-> el(k - 1, j)], cols)]

\* lines 1377-1430 for one input array and one output array: the outcome
\* and the values of the output's local buffer after the call
array_ufunc_out(self, out, ufunc, method, kwaxis, keepdims) ==
    IF mpi_to_ndarray(<<self.axis>>).raised
    THEN [res |-> "AxisException", buf |-> out.buf]
    ELSE IF ufunc_axis_exception(self, kwaxis)
    THEN [res |-> "AxisException", buf |-> out.buf]
    ELSE IF mpi_to_ndarray(<<out.axis>>).raised
    THEN [res |-> "AxisException", buf |-> out.buf]
    ELSE LET results == ufunc_primitive(ufunc, method, self.buf, self.shape, kwaxis)
         IN  IF out.axis # ufunc_dist_axis(self, method, kwaxis, keepdims)
             THEN [res |-> "AxisException", buf |-> results]
             ELSE [res |-> "ok", buf |-> results]

UfuncOut ==
    /\ coll.pc = "call"
    /\ LET r == array_ufunc_out(coll.self, coll.out, coll.ufunc, coll.method,
                                coll.kwaxis, coll.keepdims)
       IN  coll' = [coll EXCEPT !.out.buf = r.buf, !.res = r.res, !.pc = "done"]
    /\ UNCHANGED <<arrayVars, h5, mgr>>

Ufuncs == {"add", "multiply"}

\* the local shapes of the input: two axes, extents 1..MaxDim
UfuncShapes == [1..2 -> 1..MaxDim]

\* the operations: the ufunc itself, and its reduce along an axis with and
\* without keepdims
UfuncCalls ==
    {[method |-> "__call__", kwaxis |-> None, keepdims |-> FALSE]}
        \cup {[method |-> "reduce", kwaxis |-> Some(a), keepdims |-> k] :
                 a \in 0..1, k \in BOOLEAN}

InitUfuncOut ==
    /\ size = 1
    /\ \E shape \in UfuncShapes, axis \in 0..1, ufunc \in Ufuncs,
          call \in UfuncCalls :
          LET rshape == ufunc_result_shape(shape, call.method, call.kwaxis,
                                           call.keepdims)
          IN  \E oaxis \in 0..(Len(rshape) - 1) :
                 coll = [self |-> [shape |-> shape, axis |-> axis,
                                   buf |-> [k \in 1..Prod(shape) |-> k]],
                         out |-> [shape |-> rshape, axis |-> oaxis,
                                  buf |-> Zeros(Prod(rshape))],
                         ufunc |-> ufunc,
                         method |-> call.method,
                         kwaxis |-> call.kwaxis,
                         keepdims |-> call.keepdims,
                         res |-> "",
                         pc |-> "call"]
    /\ IdleArrays /\ IdleH5 /\ IdleMgr

NextUfuncOut == UfuncOut

SpecUfuncOut == InitUfuncOut /\ [][NextUfuncOut]_vars

(***************************************************************************)
(* Properties of redistribute.                                             *)
(***************************************************************************)
\* the input array A of the run (its metadata on rank r)
InputArr(r) == arr[r][1]

\* every rank has returned from its c-th redistribute call
AllReturned(c) == \A r \in Ranks : Len(arr[r]) > c

\* the rank whose balanced-split range of an extent n holds position x
Owner(n, x) ==
    CHOOSE q \in Ranks : SplitStart(n, size, q) <= x
                         /\ x < SplitStart(n, size, q) + SplitNum(n, size, q)

\* the local shape a rank has under the balanced split of `axis`
SplitShape(global_shape, axis, r) ==
    SetAt(global_shape, axis, SplitNum(At(global_shape, axis), size, r))

\* the global array assembled from the per-rank buffers data[r], each placed
\* at its rank's balanced-split range along `axis`
GlobalContent(global_shape, axis, data) ==
    [g \in Box(global_shape) |->
        LET q == Owner(At(global_shape, axis), At(g, axis))
        IN  data[q][SetAt(g, axis,
                At(g, axis) - SplitStart(At(global_shape, axis), size, q))]]

\* the array every rank got back from its c-th call is distributed over
\* `axis` with balanced local shapes, and its global content is that of the
\* input of the call
SameContentOver(c, axis) ==
    /\ \A r \in Ranks :
          /\ arr[r][c + 1].axis = axis
          /\ arr[r][c + 1].global_shape = snap[r][c].arr.global_shape
          /\ arr[r][c + 1].local_shape
                = SplitShape(snap[r][c].arr.global_shape, axis, r)
    /\ GlobalContent(InputArr(0).global_shape, axis,
                     [r \in Ranks |-> heap[r][arr[r][c + 1].base]])
          = GlobalContent(InputArr(0).global_shape, snap[0][c].arr.axis,
                          [r \in Ranks |-> snap[r][c].data])

C2_RoundTrip ==
    \A r \in Ranks :
        (newaxis[1] # InputArr(r).axis /\ Len(arr[r]) = 3)
            => /\ arr[r][3].global_shape = InputArr(r).global_shape
               /\ arr[r][3].axis = InputArr(r).axis
               /\ arr[r][3].local_shape = InputArr(r).local_shape
               /\ arr[r][3].local_offset = InputArr(r).local_offset
               /\ heap[r][arr[r][3].base] = snap[r][1].data

\* C2's case: on two ranks an array of shape (3, 2) went to axis 1 and back
\* through two exchanges
C2_Witness ==
    /\ size = 2
    /\ InputArr(0).global_shape = <<3, 2>>
    /\ \A r \in Ranks : Len(arr[r]) = 3 /\ path[r] = <<"exchange", "exchange">>

\* C3: after a redistribute call has returned, on any path, the input array
\* has the metadata and the buffer contents it had at the call's entry, and
\* on the exchange and single-process paths the result has another buffer.
C3_InputUntouched ==
    \A r \in Ranks : \A c \in 1..(Len(arr[r]) - 1) :
        /\ arr[r][c] = snap[r][c].arr
        /\ heap[r][arr[r][c].base] = snap[r][c].data
        /\ path[r][c] \in {"exchange", "copy"} => arr[r][c + 1].base # arr[r][c].base

\* C3's case: a rank has returned from an exchange, and a single process from
\* its copy
C3_Witness ==
    /\ Len(arr[0]) = 3
    /\ path[0][1] \in {"exchange", "copy"}
    /\ path[0][2] \in {"exchange", "copy"}

\* every rank has issued the sends and receives of as many exchanges as
\* rank r has
AllIssuedFor(r) ==
    \A q \in Ranks : \A d \in Ranks :
        /\ nIsend[<<q, d>>] >= nIsend[<<r, r>>]
        /\ nIrecv[<<d, q>>] >= nIrecv[<<r, r>>]

\* C4: a rank is past the first barrier (waiting on its requests, or beyond)
\* only when every rank has issued all its sends and receives of that
\* exchange.
C4_BarrierBeforeWait ==
    \A r \in Ranks :
        pc[r] \in {"waitsend", "barrier2", "waitrecv", "assemble"}
            => AllIssuedFor(r)

\* C4's case: of four ranks one is already waiting on a send while another
\* has not left the barrier yet
C4_Witness ==
    /\ size = 4
    /\ \E r \in Ranks, q \in Ranks : pc[r] = "waitsend" /\ pc[q] = "barrier1"

ObservedBy(r) ==
    {f \in failed : (f[1] = "SEND" /\ f[2] = r) \/ (f[1] = "RECV" /\ f[3] = r)}

\* the part of the result of rank r that came from rank i, and the block of
\* i's input that was meant for r
ReceivedFrom(r, i) ==
    LET ar == redist_ar(snap[r][1].arr, size)
    IN  SliceAx(heap[r][arr[r][2].base], arr[r][2].local_shape,
                snap[r][1].arr.axis, ar.start[i], ar.end[i])

SentTo(i, r) == blocks(snap[i][1].arr, snap[i][1].data, newaxis[1], size, r)

\* C6: a rank whose send or receive of a pair completes with a failure
\* status logs an error for that pair, still waits on all its requests, and
\* returns an array without raising; the blocks of the pairs without failure
\* arrive unchanged.
C6_FailureLoggedNotRaised ==
    \A r \in Ranks :
        /\ pc[r] # "raised"
        /\ {<<e[1], e[2], e[3]>> : e \in {errlog[r][k] : k \in 1..Len(errlog[r])}}
              = {<<f[1], f[2], f[3]>> : f \in ObservedBy(r)}
        /\ Len(errlog[r]) = Cardinality(ObservedBy(r))
        /\ (Len(arr[r]) = 2 /\ path[r][1] = "exchange")
              => /\ nwait[r] = 2 * size
                 /\ requests_send[r] = <<>> /\ requests_recv[r] = <<>>
                 /\ \A i \in Ranks :
                       (\A f \in failed : <<f[2], f[3]>> # <<i, r>>)
                           => ReceivedFrom(r, i) = SentTo(i, r)

\* C6's case: a receive failed and lost its data, and the rank went on and
\* returned an array
C6_Witness ==
    \E r \in Ranks :
        /\ Len(arr[r]) = 2 /\ pc[r] = "done"
        /\ \E f \in ObservedBy(r) : f[1] = "RECV"
        /\ \E c \in DOMAIN heap[r][arr[r][2].base] :
              heap[r][arr[r][2].base][c] = Garbage

(***************************************************************************)
(* Properties of the derivation of arrays.                                 *)
(***************************************************************************)
\* rank q's share of an extent n split over the communicator
Share(n, q) == (n \div size) + (IF q < n % size THEN 1 ELSE 0)

RECURSIVE SharesBelow(_, _)
SharesBelow(n, r) == IF r = 0 THEN 0 ELSE SharesBelow(n, r - 1) + Share(n, r - 1)

\* the array a, held by rank r, satisfies the partition invariant
PartitionOk(a, r) ==
    /\ InRange(Len(a.global_shape), a.axis)
    /\ Len(a.shape) = Len(a.global_shape)
    /\ a.local_shape = a.shape
    /\ Len(a.local_offset) = Len(a.global_shape)
    /\ LET d == PyIdx(Len(a.global_shape), a.axis) + 1
           n == a.global_shape[d]
       IN  /\ a.shape[d] = Share(n, r)
           /\ a.local_offset[d] = SharesBelow(n, r)
           /\ \A k \in 1..Len(a.global_shape) :
                 k # d => a.local_offset[k] = 0 /\ a.local_shape[k] = a.global_shape[k]
           /\ SharesBelow(n, size) = n
           /\ \A q \in Ranks : Share(n, q) - Share(n, size - 1) \in {0, 1}

\* C7: every array an allocation, a successful wrap or one of the derived
\* operations hands back on a rank r has, along its distributed axis, the
\* extent n div size (+1 if r < n mod size) and the offset that is the sum
\* of the shares of the ranks below r, and off that axis offset 0 and the
\* global extents; the shares sum to n and differ by at most one.
C7_PartitionInvariant ==
    /\ \A r \in DOMAIN made : made[r].res = "ok" => PartitionOk(made[r].arr, r)
    /\ \A q \in 0..3 :
          /\ MPIArray_alloc(<<8, 3>>, 0, "world", 4, q).shape = <<2, 3>>
          /\ MPIArray_alloc(<<8, 3>>, 0, "world", 4, q).local_offset = <<2 * q, 0>>

\* an array of uneven shares, derived by a slicing that lowered the number
\* of its distributed axis, on a communicator of several ranks
C7_Witness ==
    /\ lastop.op = "getitem"
    /\ size > 1
    /\ \A r \in Ranks : made[r].res = "ok"
    /\ made[0].arr.shape # made[size - 1].arr.shape
    /\ made[size - 1].arr.local_offset # Zeros(Len(made[0].arr.shape))
    /\ made[0].arr.axis = 0
    /\ Len(made[0].arr.shape) = 2

\* the extents of the buffers of the last wrap, their total, and whether
\* every rank's extent is its share of the total
WrapAxisExists ==
    \A r \in Ranks : InRange(Len(lastop.shapes[r]), lastop.axis)

WrapExtent(r) == PyAt(lastop.shapes[r], lastop.axis)

WrapTotal == SumBelow([q \in Ranks |-> WrapExtent(q)], size)

WrapFits == \A q \in Ranks : WrapExtent(q) = Share(WrapTotal, q)

\* C8: a wrap succeeds, on every rank, exactly when every rank's extent
\* along the axis is its balanced-split share of the summed extents; then
\* global_shape[axis] is the sum and local_offset[axis] the start of the
\* rank's share; otherwise it raises on every rank and hands back no array.
C8_WrapChecksLayout ==
    lastop.wrap /\ WrapAxisExists =>
        \A r \in Ranks :
            /\ made[r].res = "ok" <=> WrapFits
            /\ WrapFits =>
                  /\ PyAt(made[r].arr.global_shape, lastop.axis) = WrapTotal
                  /\ PyAt(made[r].arr.local_offset, lastop.axis)
                        = SharesBelow(WrapTotal, r)
            /\ ~WrapFits => made[r].res = "raised" /\ made[r].arr = NoArr

\* a wrap that raised on a rank whose own extent is its share, because the
\* extent of another rank is not
C8_Witness ==
    /\ lastop.op = "wrap"
    /\ \E r, q \in Ranks :
          /\ WrapExtent(r) = Share(WrapTotal, r)
          /\ WrapExtent(q) # Share(WrapTotal, q)
          /\ made[r].res = "raised"

(***************************************************************************)
(* Properties of gather.                                                   *)
(***************************************************************************)
\* the part of the array g that lies in rank k's range of the distributed
\* axis, as an array of the shape of k's local section
Slab(g, k) ==
    [c \in Box(InputArr(k).local_shape) |->
        g.data[[j \in 1..Len(c) |-> c[j] + InputArr(k).local_offset[j]]]]

\* C9: no rank's gather(rank=target) raises; on every rank other than the
\* target it returns None; on the target it returns an array of the global
\* shape whose slab [offset_k, offset_k + extent_k) is rank k's local
\* buffer, for every rank k.  For shape (8, 3), axis 0, four ranks and
\* buffers filled with the rank's id, row i of it is i div 2.
C9_GatherAssembles ==
    /\ \A r \in Ranks : pc[r] # "raised"
    /\ \A r \in Ranks : pc[r] = "done" /\ r # target => gathered[r] = NoData
    /\ pc[target] = "done" =>
          /\ gathered[target].kind = "ndarray"
          /\ gathered[target].shape = InputArr(target).global_shape
          /\ DOMAIN gathered[target].data = Box(InputArr(target).global_shape)
          /\ \A k \in Ranks : Slab(gathered[target], k) = heap[k][1]
          /\ (/\ size = 4
              /\ InputArr(0).global_shape = <<8, 3>>
              /\ InputArr(0).axis = 0
              /\ \A k \in Ranks : \A c \in DOMAIN heap[k][1] : heap[k][1][c] = k)
             => \A c \in Box(<<8, 3>>) :
                    gathered[target].data[c] = c[1] \div 2

\* all four ranks returned from the gather of the (8, 3) array filled with
\* the ranks' ids onto rank 2, split unevenly along axis 1
C9_Witness ==
    /\ \A r \in Ranks : pc[r] = "done"
    /\ size = 4
    /\ target = 2
    /\ InputArr(0).global_shape = <<8, 3>>
    /\ InputArr(0).axis = 1
    /\ gathered[2].data[<<5, 2>>] = 2
    /\ gathered[2].data[<<5, 0>>] = 0
    /\ gathered[0] = NoData

(***************************************************************************)
(* Properties of the global fetch.                                         *)
(***************************************************************************)
\* the entry of the selection for the distributed axis
DistEntry == At(slice_list(sel, 2), InputArr(0).axis)

\* the ranks whose range [offset, offset + extent) holds the global index i
Holders(i) ==
    {r \in Ranks :
        /\ At(InputArr(r).local_offset, InputArr(r).axis) <= i
        /\ i < At(InputArr(r).local_offset, InputArr(r).axis)
                 + At(InputArr(r).local_shape, InputArr(r).axis)}

\* what the selection takes of the global array
GlobalFetch ==
    np_getitem([g \in Box(InputArr(0).global_shape) |->
                   Label(g, InputArr(0).global_shape)],
               InputArr(0).global_shape, slice_list(sel, 2))

\* C10: for an integer i, 0 <= i < global extent, on the distributed axis,
\* exactly one rank holds i; that rank resolves it to i - offset and gets
\* the data the selection takes of the global array; every other rank
\* resolves it to None and gets None; no rank treats the selection as full.
C10_IntegerIndexOwner ==
    (/\ DistEntry.kind = "int"
     /\ 0 <= DistEntry.i
     /\ DistEntry.i < At(InputArr(0).global_shape, InputArr(0).axis))
    => /\ Cardinality(Holders(DistEntry.i)) = 1
       /\ \A r \in Ranks :
             pc[r] = "done" =>
                /\ ~fetched[r].resolved.fullslice
                /\ IF r \in Holders(DistEntry.i)
                   THEN /\ At(fetched[r].resolved.slobj, InputArr(r).axis)
                              = PyInt(DistEntry.i
                                      - At(InputArr(r).local_offset,
                                           InputArr(r).axis))
                        /\ fetched[r].out.res = "ndarray"
                        /\ fetched[r].out.val.data = GlobalFetch
                   ELSE /\ At(fetched[r].resolved.slobj, InputArr(r).axis)
                              = PyNone
                        /\ fetched[r].out.res = "none"
                        /\ fetched[r].out.val = NoData

\* both ranks fetched index 2 of an axis of extent 3: rank 1, whose range
\* starts at 2, got the data at local index 0 and rank 0 got None
C10_Witness ==
    /\ size = 2
    /\ \A r \in Ranks : pc[r] = "done"
    /\ InputArr(0).global_shape = <<3, 2>>
    /\ InputArr(0).axis = 0
    /\ sel = <<PyInt(2)>>
    /\ At(fetched[1].resolved.slobj, 0) = PyInt(0)
    /\ fetched[1].out.res = "ndarray"
    /\ fetched[1].out.val.shape = <<2>>
    /\ fetched[0].out.res = "none"

\* C11: for an integer i, -n <= i < 0 (n the global extent), on the
\* distributed axis, the rank whose range holds n + i gets the data the
\* selection takes of the global array and every other rank gets None.
C11_NegativeIndexOwner ==
    LET n == At(InputArr(0).global_shape, InputArr(0).axis)
    IN  (/\ DistEntry.kind = "int"
         /\ 0 - n <= DistEntry.i
         /\ DistEntry.i < 0)
        => \A r \in Ranks :
              pc[r] = "done" =>
                 IF r \in Holders(n + DistEntry.i)
                 THEN /\ fetched[r].out.res = "ndarray"
                      /\ fetched[r].out.val.data = GlobalFetch
                 ELSE fetched[r].out.res = "none"

\* what the code does with such an index: every rank that has fetched
\* resolved it to None and got None, the holder of n + i included
C11_NegativeIndexNowhere ==
    LET n == At(InputArr(0).global_shape, InputArr(0).axis)
    IN  (/\ DistEntry.kind = "int"
         /\ 0 - n <= DistEntry.i
         /\ DistEntry.i < 0)
        => \A r \in Ranks :
              pc[r] = "done" =>
                 /\ At(fetched[r].resolved.slobj, InputArr(r).axis) = PyNone
                 /\ fetched[r].out.res = "none"

\* every rank has evaluated the fetch
AllFetched == \A r \in Ranks : pc[r] = "done"

\* the global extent of the distributed axis
GlobalExtent == At(InputArr(0).global_shape, InputArr(0).axis)

\* the global indices a slice selects on an axis of length n (numpy)
Selected(s, n) ==
    {SliceStart(s, n) + k * SliceStep(s) : k \in 0..(SliceLen(s, n) - 1)}

\* the global indices rank r's resolved entry takes of its local range:
\* the local selection shifted back by the rank's offset
LocalRange(r) ==
    LET e   == At(fetched[r].resolved.slobj, InputArr(r).axis)
        off == At(InputArr(r).local_offset, InputArr(r).axis)
        len == At(InputArr(r).local_shape, InputArr(r).axis)
    IN  IF e.kind = "none" THEN {}
        ELSE {off + x : x \in Selected(e, len)}

\* the position of the distributed axis in the result of the fetch: the
\* integer entries before it remove their axes
ResultAxis ==
    InputArr(0).axis
        - Cardinality({k \in 1..InputArr(0).axis :
                          slice_list(sel, 2)[k].kind = "int"})

\* the extent of rank r's result along the distributed axis; None has none
ResultLen(r) ==
    IF fetched[r].out.res = "none" THEN 0
    ELSE At(fetched[r].out.val.shape, ResultAxis)

\* the ranks' results concatenated in rank order along the distributed axis
Concatenated ==
    LET lens  == [r \in Ranks |-> ResultLen(r)]
        shape == SetAt(np_getitem_shape(InputArr(0).global_shape,
                                        slice_list(sel, 2)),
                       ResultAxis, SumBelow(lens, size))
    IN  [c \in Box(shape) |->
            LET q == CHOOSE r \in Ranks :
                        /\ SumBelow(lens, r) <= At(c, ResultAxis)
                        /\ At(c, ResultAxis) < SumBelow(lens, r) + lens[r]
            IN  fetched[q].out.val.data[
                    SetAt(c, ResultAxis, At(c, ResultAxis) - SumBelow(lens, q))]]

\* C12: for a slice start:stop with step absent or 1 on the distributed
\* axis, start and stop absent or any integers, the ranges the ranks
\* resolve, shifted back by the ranks' offsets, are pairwise disjoint, their
\* union is the set of global indices the slice selects on an axis of the
\* global extent, and the ranks' results concatenated in rank order are the
\* global selection.
C12_UnitSliceCovers ==
    (/\ AllFetched
     /\ DistEntry.kind = "slice"
     /\ SliceStep(DistEntry) = 1)
    => /\ \A p, q \in Ranks : p # q => LocalRange(p) \cap LocalRange(q) = {}
       /\ UNION {LocalRange(r) : r \in Ranks}
             = Selected(DistEntry, GlobalExtent)
       /\ \A r \in Ranks : fetched[r].out.res \in {"none", "ndarray", "mpiarray"}
       /\ Concatenated = GlobalFetch

\* three ranks fetched [-2:3:1, 1] of an array of shape (3, 2): rank 0 got
\* None and ranks 1 and 2 one element each, the labels 4 and 6
C12_Witness ==
    /\ size = 3
    /\ AllFetched
    /\ InputArr(0).global_shape = <<3, 2>>
    /\ InputArr(0).axis = 0
    /\ sel = <<PySlice(Some(0 - 2), Some(3), Some(1)), PyInt(1)>>
    /\ fetched[0].out.res = "none"
    /\ fetched[1].out.val.data = [c \in {<<0>>} |-> 4]
    /\ fetched[2].out.val.data = [c \in {<<0>>} |-> 6]
    /\ LocalRange(1) = {1}
    /\ LocalRange(2) = {2}

\* C13: for a slice start:stop:step with step >= 2 on the distributed axis,
\* the ranks' results concatenated in rank order are the elements numpy
\* selects of the global array, those at start, start + step, ... < stop.
C13_SteppedSliceSelects ==
    (/\ AllFetched
     /\ DistEntry.kind = "slice"
     /\ SliceStep(DistEntry) >= 2)
    => Concatenated = GlobalFetch

\* what does hold for such a slice: a rank applies the step from the first
\* index of its own clipped range, whatever its offset
C13_StepFromLocalStart ==
    (/\ DistEntry.kind = "slice"
     /\ SliceStep(DistEntry) >= 2)
    => \A r \in Ranks :
          (pc[r] = "done" /\ fetched[r].out.res = "ndarray") =>
             LET e   == At(fetched[r].resolved.slobj, InputArr(r).axis)
                 off == At(InputArr(r).local_offset, InputArr(r).axis)
                 lo  == Max(SliceStart(DistEntry, GlobalExtent), off)
             IN  /\ e.step = DistEntry.step
                 /\ ResultLen(r) > 0 => lo \in LocalRange(r)

\* the global indices of rank r's range along the distributed axis
RangeOf(r) ==
    LET off == At(InputArr(r).local_offset, InputArr(r).axis)
    IN  off..(off + At(InputArr(r).local_shape, InputArr(r).axis) - 1)

\* the part of the global selection that falls in rank r's range
SelectedIn(r) == Selected(DistEntry, GlobalExtent) \cap RangeOf(r)

\* the elements of the global selection that rank r holds, in order
SelectedElements(r) ==
    LET below == Cardinality({x \in Selected(DistEntry, GlobalExtent) :
                                 \A y \in RangeOf(r) : x < y})
        shape == SetAt(np_getitem_shape(InputArr(0).global_shape,
                                        slice_list(sel, 2)),
                       ResultAxis, Cardinality(SelectedIn(r)))
    IN  [c \in Box(shape) |->
            GlobalFetch[SetAt(c, ResultAxis, At(c, ResultAxis) + below)]]

\* C14: for a slice on the distributed axis that is not the full slice, a
\* rank gets None exactly when none of the selection falls in its range,
\* and a rank holding selected elements gets a plain buffer with exactly
\* those elements.
C14_NoneIffNothingSelected ==
    (/\ DistEntry.kind = "slice"
     /\ ~resolve_fullslice(DistEntry))
    => \A r \in Ranks :
          pc[r] = "done" =>
             /\ fetched[r].out.res = "none" <=> SelectedIn(r) = {}
             /\ SelectedIn(r) # {} =>
                   /\ fetched[r].out.res = "ndarray"
                   /\ fetched[r].out.val.data = SelectedElements(r)

\* the documented example on three ranks, shape (3, 2) and [:2, 1]: the
\* ranks other than 0 and 1 get None
C14_DocExample ==
    (/\ size = 3
     /\ InputArr(0).global_shape = <<3, 2>>
     /\ InputArr(0).axis = 0
     /\ sel = <<PySlice(None, Some(2), None), PyInt(1)>>
     /\ pc[2] = "done")
    => fetched[2].out.res = "none"

\* what holds with step absent or 1: None only on ranks without selected
\* elements, and a rank with selected elements gets exactly those; a rank
\* without selected elements gets None or an empty buffer
C14_UnitSliceLocalPart ==
    (/\ DistEntry.kind = "slice"
     /\ ~resolve_fullslice(DistEntry)
     /\ SliceStep(DistEntry) = 1)
    => \A r \in Ranks :
          pc[r] = "done" =>
             /\ fetched[r].out.res \in {"none", "ndarray"}
             /\ fetched[r].out.res = "none" => SelectedIn(r) = {}
             /\ fetched[r].out.res = "ndarray" =>
                   fetched[r].out.val.data = SelectedElements(r)

\* C15: a fetch hands back a distributed array, with its distribution
\* metadata and on every rank, exactly when the entry for the distributed
\* axis is a slice with start, stop and step all absent; with an integer or
\* a present start, stop or step it hands back a plain buffer or None.
C15_DistributedIffFullSlice ==
    \A r \in Ranks :
       pc[r] = "done" =>
          IF DistEntry = FullSlice
          THEN /\ fetched[r].out.res = "mpiarray"
               /\ fetched[r].out.meta.axis = ResultAxis
               /\ fetched[r].out.meta.global_shape
                     = np_getitem_shape(InputArr(0).global_shape,
                                        slice_list(sel, 2))
               /\ fetched[r].out.meta.local_shape = fetched[r].out.val.shape
               /\ At(fetched[r].out.meta.local_offset, ResultAxis)
                     = At(InputArr(r).local_offset, InputArr(r).axis)
               /\ fetched[r].out.val.data = SelectedElements(r)
          ELSE /\ fetched[r].out.res \in {"ndarray", "none"}
               /\ fetched[r].out.meta = NoArr

\* three ranks fetched [1, :] of an array of shape (2, 2) distributed over
\* axis 1: every rank, rank 2 with its empty range included, got a
\* distributed array over axis 0 of global shape (2,)
C15_Witness ==
    /\ size = 3
    /\ AllFetched
    /\ InputArr(0).global_shape = <<2, 2>>
    /\ InputArr(0).axis = 1
    /\ sel = <<PyInt(1), FullSlice>>
    /\ \A r \in Ranks :
          /\ fetched[r].out.res = "mpiarray"
          /\ fetched[r].out.meta.axis = 0
          /\ fetched[r].out.meta.global_shape = <<2>>
    /\ fetched[2].out.meta.local_shape = <<0>>
    /\ fetched[1].out.meta.local_offset = <<1>>

(***************************************************************************)
(* Properties of the global assignment.                                    *)
(***************************************************************************)
\* the coordinates of the global array that the selection takes
SelectedCoords ==
    {np_getitem_src(c, InputArr(0).global_shape, slice_list(sel, 2)) :
        c \in Box(np_getitem_shape(InputArr(0).global_shape,
                                   slice_list(sel, 2)))}

\* the global coordinate of the element at coordinate g of rank r's buffer
GlobalCoord(r, g) ==
    [k \in 1..Len(g) |-> g[k] + InputArr(r).local_offset[k]]

\* the elements of rank r's buffer that no longer hold their label
ChangedBy(r) ==
    {g \in Box(InputArr(r).local_shape) :
        heap[r][InputArr(r).base][g] # LabelData(InputArr(r))[g]}

\* the value fits on the rank: a scalar, or an array of the shape of the
\* rank's own part of the selection
FittingValue(r) == assigned[r].value \in {"scalar", "local"}

\* C16: an assignment through global_slice with a selection that is not
\* full on the distributed axis raises on no rank, leaves the buffer of a
\* rank whose range the selection does not touch as it was, and changes
\* only selected elements on the others.
C16_AssignmentFrame ==
    DistEntry # FullSlice
    => \A r \in Ranks :
          (pc[r] = "assigned" /\ FittingValue(r)) =>
             /\ ~assigned[r].raised
             /\ (\A g \in Box(InputArr(r).local_shape) :
                    GlobalCoord(r, g) \notin SelectedCoords)
                   => heap[r][InputArr(r).base] = LabelData(InputArr(r))
             /\ \A g \in ChangedBy(r) : GlobalCoord(r, g) \in SelectedCoords

\* what holds with an integer or a slice of step absent or 1: no rank
\* raises and only selected elements change; with a non-negative integer
\* or a slice every selected element a rank holds becomes the value
C16_UnitStepFrame ==
    (/\ DistEntry # FullSlice
     /\ DistEntry.kind = "slice" => SliceStep(DistEntry) = 1)
    => \A r \in Ranks :
          (pc[r] = "assigned" /\ FittingValue(r)) =>
             /\ ~assigned[r].raised
             /\ \A g \in ChangedBy(r) : GlobalCoord(r, g) \in SelectedCoords
             /\ (DistEntry.kind = "int" => DistEntry.i >= 0)
                   => \A g \in Box(InputArr(r).local_shape) :
                         GlobalCoord(r, g) \in SelectedCoords
                            => g \in ChangedBy(r)

(***************************************************************************)
(* Properties of the dispatch of ufuncs.                                   *)
(***************************************************************************)
\* the distributed axis and the number of axes of the operand
OperandAxis == darr[0].axis

OperandNdim == Len(darr[0].global_shape)

\* rank r holds a result of the call
HasResult(r) == Len(heap[r]) = 2

\* C17: an elementwise operation on MPIArrays that are not all distributed
\* over the same axis raises AxisException on every rank and leaves no
\* result; when all are distributed over the axis d it succeeds and the
\* result is an MPIArray distributed over d.
C17_ElementwiseSameAxis ==
    lastop.op = "__call__"
    => \A r \in Ranks :
          IF \E k \in 1..Len(lastop.others) : lastop.others[k] # OperandAxis
          THEN made[r].res = "raised" /\ ~HasResult(r)
          ELSE /\ made[r].res = "ok"
               /\ HasResult(r)
               /\ made[r].arr.axis = OperandAxis
               /\ made[r].arr.global_shape = darr[r].global_shape
               /\ made[r].arr.local_shape = darr[r].local_shape
               /\ made[r].arr.local_offset = darr[r].local_offset

\* two ranks combined x of global shape (2, 2) distributed over axis 0 with
\* an array distributed over axis 1, as in the documented example: both
\* got the exception and no result
C17_Witness ==
    /\ size = 2
    /\ lastop.op = "__call__"
    /\ lastop.others = <<1>>
    /\ darr[0].global_shape = <<2, 2>>
    /\ OperandAxis = 0
    /\ \A r \in Ranks : made[r].res = "raised" /\ ~HasResult(r)

\* the axis keyword of the call designates axis a of the operand, as a or
\* as a - ndim
Designates(a) ==
    /\ lastop.kwaxis.some
    /\ lastop.kwaxis.v \in {a, a - OperandNdim}

\* C18: a call whose axis keyword designates the distributed axis d, as d
\* or as d - ndim, raises AxisException on every rank before the primitive
\* runs: no rank gets a result.
C18_DistributedAxisRefused ==
    (lastop.op \in {"reduce", "accumulate"} /\ Designates(OperandAxis))
    => \A r \in Ranks : made[r].res = "raised" /\ ~HasResult(r)

\* what holds: the index d itself is refused, and the index d - ndim is
\* taken to the primitive, which reduces or accumulates along the
\* distributed axis on every rank
C18_OnlyNonNegativeRefused ==
    (lastop.op \in {"reduce", "accumulate"} /\ Designates(OperandAxis))
    => \A r \in Ranks :
          IF lastop.kwaxis.v = OperandAxis
          THEN made[r].res = "raised" /\ ~HasResult(r)
          ELSE ~ufunc_axis_exception(darr[r], lastop.kwaxis)

\* the axis of the operand that the axis keyword of the call eliminates
ReducedAxis == PyIdx(OperandNdim, lastop.kwaxis.v)

\* the call reduces over one axis other than the distributed one
ReducesOffAxis ==
    /\ lastop.op = "reduce"
    /\ lastop.kwaxis.some
    /\ ReducedAxis # OperandAxis

\* where the operand's distributed dimension is found in the result
ExpectedAxis ==
    IF ~lastop.keepdims /\ ReducedAxis < OperandAxis
    THEN OperandAxis - 1 ELSE OperandAxis

\* rank r got an MPIArray whose distributed axis, read as Python reads an
\* index, is ExpectedAxis, with the operand's partition of that dimension
ResultFollowsPartition(r) ==
    /\ made[r].res = "ok"
    /\ PyIdx(Len(made[r].arr.global_shape), made[r].arr.axis) = ExpectedAxis
    /\ made[r].arr.global_shape
          = ufunc_result_shape(darr[r].global_shape, "reduce", lastop.kwaxis,
                               lastop.keepdims)
    /\ PyAt(made[r].arr.local_offset, made[r].arr.axis)
          = At(darr[r].local_offset, OperandAxis)

\* C19: a reduction over one axis a other than the distributed axis d, a
\* given as a non-negative or as a negative index, hands back an MPIArray
\* whose distributed axis is d - 1 when a lies before d and dimensions are
\* not kept and d otherwise: the position of the operand's partitioned
\* dimension in the result.
C19_ReducedAxisFollows ==
    ReducesOffAxis => \A r \in Ranks : ResultFollowsPartition(r)

\* what holds: the same for an axis given as a non-negative index, and for
\* any index when dimensions are kept
C19_NonNegativeAxisFollows ==
    (ReducesOffAxis /\ (lastop.kwaxis.v >= 0 \/ lastop.keepdims))
    => \A r \in Ranks :
          /\ ResultFollowsPartition(r)
          /\ made[r].arr.axis = ExpectedAxis

\* the sum of the values of f over the set S of its arguments
RECURSIVE SumOf(_, _)
SumOf(f, S) ==
    IF S = {} THEN 0
    ELSE LET x == CHOOSE y \in S : TRUE
         IN  f[x] + SumOf(f, S \ {x})

\* the serial sum over the whole global array, which holds the labels
\* 1 .. number of elements
GlobalSum ==
    LET n == Prod(darr[0].global_shape) IN (n * (n + 1)) \div 2

\* the call reduces the array over all its axes to a scalar
ReducesToScalar ==
    /\ lastop.op = "reduce"
    /\ ~lastop.kwaxis.some
    /\ ~lastop.keepdims

\* C20 as amended: a reduction to a scalar hands back an array distributed
\* over axis 0 of global length the communicator's size; every rank holds
\* one element, at offset its rank, the sum over its own local buffer; the
\* elements of all ranks add up to the serial sum over the global array.
C20_ScalarPerRank ==
    ReducesToScalar
    => /\ \A r \in Ranks :
             /\ made[r].res = "ok"
             /\ made[r].arr.axis = 0
             /\ made[r].arr.global_shape = <<size>>
             /\ made[r].arr.local_shape = <<1>>
             /\ made[r].arr.local_offset = <<r>>
             /\ DOMAIN heap[r][2] = {<<0>>}
             /\ heap[r][2][<<0>>] = SumOf(heap[r][1], DOMAIN heap[r][1])
       /\ SumOf([r \in Ranks |-> heap[r][2][<<0>>]], Ranks) = GlobalSum

\* three ranks summed an array of global shape (2, 2) distributed over
\* axis 0: ranks 0 and 1 hold 1 + 2 and 3 + 4, rank 2, whose range is
\* empty, holds 0, and the result has global shape (3,)
C20_Witness ==
    /\ size = 3
    /\ ReducesToScalar
    /\ darr[0].global_shape = <<2, 2>>
    /\ darr[0].axis = 0
    /\ made[0].arr.global_shape = <<3>>
    /\ heap[0][2][<<0>>] = 3
    /\ heap[1][2][<<0>>] = 7
    /\ heap[2][2][<<0>>] = 0

\* C20 as stated: the result has global length 1 and its single element,
\* held by exactly one rank, is the serial sum over the global array.
C20_ScalarIsGlobalSum ==
    ReducesToScalar
    => /\ \A r \in Ranks :
             /\ made[r].res = "ok"
             /\ made[r].arr.axis = 0
             /\ made[r].arr.global_shape = <<1>>
       /\ Cardinality({r \in Ranks : made[r].arr.local_shape = <<1>>}) = 1
       /\ \A r \in Ranks :
             made[r].arr.local_shape = <<1>> => heap[r][2][<<0>>] = GlobalSum

(***************************************************************************)
(* Properties of the communication of the dispatch.                        *)
(***************************************************************************)
\* rank r has made all its calls
CollFinished(r) == coll.pc[r] = "idle" /\ coll.prog[r] = <<>>

\* rank r is inside an allreduce that some rank has not entered
CollBlocked(r) ==
    coll.pc[r] \in {"totallen", "layout"} /\ ~AllreduceComplete(r)

\* the calls with a wrapped result that rank r makes in the whole run
PlannedWraps(r) ==
    coll.wrapped[r]
        + (IF coll.pc[r] = "idle" THEN 0 ELSE 1)
        + Cardinality({k \in 1..Len(coll.prog[r]) : coll.prog[r][k] = "wrap"})

\* C21 as amended: a call that wraps a result is collective.  A rank
\* returns from its n-th such call only after every rank has entered both
\* allreduce calls of its own n-th such call; when all ranks make the same
\* number of such calls the run never stops before every rank has made all
\* its calls; a call that wraps no result enters no allreduce.
C21_WrapIsCollective ==
    /\ \A r, q \in Ranks : coll.entered[q] >= 2 * coll.wrapped[r]
    /\ (\A r, q \in Ranks : PlannedWraps(r) = PlannedWraps(q))
          => \/ \A r \in Ranks : CollFinished(r)
             \/ \E r \in Ranks : ~CollFinished(r) /\ ~CollBlocked(r)
    /\ \A r \in Ranks : PlannedWraps(r) = 0 => coll.entered[r] = 0

\* two ranks made one wrapping call each: rank 0 has returned and rank 1,
\* which entered both allreduce calls, has not yet
C21_Witness ==
    /\ size = 2
    /\ coll.wrapped = [r \in Ranks |-> IF r = 0 THEN 1 ELSE 0]
    /\ coll.entered = [r \in Ranks |-> 2]
    /\ coll.pc[1] = "layout"

\* C21 as stated: the dispatch needs no communication, so a rank that makes
\* a call the other ranks do not make is never left waiting for them.
C21_DispatchIsLocal ==
    /\ \A r \in Ranks : coll.entered[r] = 0
    /\ \A r \in Ranks :
          ~(CollBlocked(r) /\ \A q \in Ranks \ {r} : CollFinished(q))

(***************************************************************************)
(* Properties of the partition planner.                                    *)
(***************************************************************************)
\* the largest local buffer of the planned array, in bytes
LargestSize ==
    allreduce_max(local_nbytes(h5.global_shape, h5.axis, h5.itemsize, size))

NumSplit == CeilDiv(LargestSize, h5.threshold)

\* the axes other than the distributed one that have room for NumSplit parts
Qualifying ==
    {a \in 0..(Len(h5.global_shape) - 1) :
        a # h5.axis /\ At(h5.global_shape, a) >= NumSplit}

LowestQualifying == CHOOSE a \in Qualifying : \A b \in Qualifying : a <= b

PlanAsStated(plan) ==
    IF LargestSize > h5.threshold
    THEN IF Qualifying = {}
         THEN plan.res = "raised"
         ELSE /\ plan.res = "ok"
              /\ plan.split_axis = LowestQualifying
              /\ Len(plan.partitions) = NumSplit
    ELSE plan.res = "ok" /\ Len(plan.partitions) = 1

\* C22: with skip disabled, a largest local buffer above the threshold is
\* planned as ceil(largest / threshold) partitions of the lowest axis that is
\* not the distributed one and has at least that extent, or an error when
\* there is no such axis; a largest local buffer within the threshold is
\* planned as one partition.
C22_PlannerReturns ==
    ~h5.skip =>
        \A r \in Ranks : h5.plan[r] # NoPlan => PlanAsStated(h5.plan[r])

\* the same for arrays whose largest local buffer is not empty
C22_NonEmptyPlannerReturns ==
    (~h5.skip /\ LargestSize > 0) =>
        \A r \in Ranks : h5.plan[r] # NoPlan => PlanAsStated(h5.plan[r])

\* an array above the threshold has been split along an axis behind one
\* that is too short
C22_SplitReached ==
    \E r \in Ranks :
        /\ ~h5.skip
        /\ h5.plan[r].res = "ok"
        /\ Len(h5.plan[r].partitions) = 3
        /\ h5.plan[r].split_axis = 2
        /\ h5.axis = 1

PartLen(p) == p.stop.v - p.start.v

\* C23: with skip disabled, the bytes a rank transfers for a partition of a
\* returned plan, its local buffer size times the partition's length over
\* the extent of the split axis, do not exceed the threshold.
C23_PartitionWithinThreshold ==
    ~h5.skip =>
        \A r \in Ranks : h5.plan[r].res = "ok" =>
            \A k \in 1..Len(h5.plan[r].partitions) :
                local_nbytes(h5.global_shape, h5.axis, h5.itemsize, size)[r]
                        * PartLen(h5.plan[r].partitions[k])
                    <= h5.threshold
                           * At(h5.global_shape, h5.plan[r].split_axis)

\* the same for plans whose number of parts divides the extent of the split
\* axis
C23_EvenPartitionWithinThreshold ==
    ~h5.skip =>
        \A r \in Ranks :
            (/\ h5.plan[r].res = "ok"
             /\ Len(h5.plan[r].partitions) > 0
             /\ At(h5.global_shape, h5.plan[r].split_axis)
                    % Len(h5.plan[r].partitions) = 0) =>
                \A k \in 1..Len(h5.plan[r].partitions) :
                    local_nbytes(h5.global_shape, h5.axis, h5.itemsize, size)[r]
                            * PartLen(h5.plan[r].partitions[k])
                        <= h5.threshold
                               * At(h5.global_shape, h5.plan[r].split_axis)


(***************************************************************************)
(* Properties of the partitioned transfers.                                *)
(***************************************************************************)
\* the elements of an array of the given shape that the index v addresses
Addressed(shape, v) ==
    {np_getitem_src(c, shape, v) : c \in Box(np_getitem_shape(shape, v))}

\* the partitions are contiguous ordered ranges that start at 0 and end at n
CoversInOrder(parts, n) ==
    /\ Len(parts) >= 1
    /\ parts[1].start.v = 0
    /\ parts[Len(parts)].stop.v = n
    /\ \A k \in 1..Len(parts) : parts[k].start.v <= parts[k].stop.v
    /\ \A k \in 1..(Len(parts) - 1) : parts[k].stop.v = parts[k + 1].start.v

\* the extent the partitions of a plan of rank r's array divide
PlanExtent(self, plan) ==
    IF Len(plan.partitions) = 1 /\ plan.split_axis = 0
    THEN At(self.local_shape, 0)
    ELSE At(self.global_shape, plan.split_axis)

\* the slices of partition k of the write of rank r
WriteSel(r, k) ==
    partition_sel(h5.wrote[r].sel, h5.wrote[r].plan.split_axis,
                  At(h5.global_shape, h5.wrote[r].plan.split_axis),
                  h5.wrote[r].plan.partitions[k])

Written(r) == MPIArray_alloc(h5.global_shape, h5.axis, "world", size, r)

\* the file-side slice addresses the global coordinates of what the
\* in-memory slice addresses
SameElements(r, k) ==
    Addressed(h5.global_shape, WriteSel(r, k).islice)
        = {[i \in 1..Len(c) |-> c[i] + Written(r).local_offset[i]] :
              c \in Addressed(Written(r).local_shape, WriteSel(r, k).fslice)}

\* how many partitions of rank r's write address the local element c
TimesWritten(r, c) ==
    Cardinality({k \in 1..Len(h5.wrote[r].plan.partitions) :
                    c \in Addressed(Written(r).local_shape, WriteSel(r, k).fslice)})

\* the largest local buffer of the array that is read back, in bytes
ReadLargest ==
    allreduce_max(local_nbytes(h5.global_shape, h5.raxis, h5.itemsize, size))

WriteTransportMpi == h5.f # "serial file"

ReadTransportMpi == h5.f = "mpi file" \/ (h5.f = "filename" /\ h5.raxis > 0)

\* C26 (as stated): a write or a read is collective only if the file is on
\* the MPI-parallel transport, the extent of the distributed axis is at
\* least the communicator size, and the distributed axis is not axis 0.
C26_CollectiveOnlyOffAxisZero ==
    /\ \A r \in Ranks : (h5.wrote[r].res = "ok" /\ h5.wrote[r].collective) =>
          /\ WriteTransportMpi
          /\ At(h5.global_shape, h5.axis) >= size
          /\ h5.axis # 0
    /\ \A r \in Ranks : (h5.got[r].res = "ok" /\ h5.got[r].collective) =>
          /\ ReadTransportMpi
          /\ At(h5.global_shape, h5.raxis) >= size
          /\ h5.raxis # 0

\* C26 (amended): a read is collective exactly if the file is on the
\* MPI-parallel transport, the extent of the distributed axis is at least
\* the communicator size and the distributed axis is not axis 0; a write is
\* collective exactly if the first two hold and the distributed axis is not
\* axis 0 or a compression is requested.
C26_CollectiveMode ==
    /\ \A r \in Ranks : h5.wrote[r].res = "ok" =>
          (h5.wrote[r].collective <=>
              /\ WriteTransportMpi
              /\ At(h5.global_shape, h5.axis) >= size
              /\ (h5.axis # 0 \/ h5.compression))
    /\ \A r \in Ranks : h5.got[r].res = "ok" =>
          (h5.got[r].collective <=>
              /\ ReadTransportMpi
              /\ At(h5.global_shape, h5.raxis) >= size
              /\ h5.raxis # 0)

\* a compressed array distributed over axis 0 was written collectively and
\* read back over axis 0 independently
C26_Witness ==
    \E r \in Ranks :
        /\ h5.axis = 0 /\ h5.raxis = 0
        /\ h5.compression
        /\ h5.wrote[r].res = "ok" /\ h5.wrote[r].collective
        /\ h5.got[r].res = "ok" /\ ~h5.got[r].collective


(***************************************************************************)
(* Properties of the read with a selection.                                *)
(***************************************************************************)
\* the selection of axis k (0-based), a full slice where none is given
SelOf(k) == IF k < Len(h5.sel) THEN At(h5.sel, k) ELSE FullSlice

\* the shape of D[sel]
SelectedShape ==
    [k \in 1..Len(h5.file.shape) |-> SliceLen(SelOf(k - 1), h5.file.shape[k])]

\* the element of D that D[sel] holds at coordinate c
SelectedSource(c) ==
    [k \in 1..Len(c) |->
        SliceStart(SelOf(k - 1), h5.file.shape[k]) + c[k] * SliceStep(SelOf(k - 1))]

\* D[sel] restricted along axis 0 to the balanced-split range of rank r
SelectedPart(r) ==
    LET loc == split_local(SelectedShape[1], size, r)
    IN  [c \in Box(SetAt(SelectedShape, 0, loc.num)) |->
            h5.file.data[SelectedSource(SetAt(c, 0, At(c, 0) + loc.start))]]

LoadedAsSelected(r) ==
    /\ h5.got[r].res = "ok"
    /\ h5.got[r].arr.global_shape = SelectedShape
    /\ h5.got[r].arr.axis = 0
    /\ h5.got[r].buf = SelectedPart(r)

\* C25: a dataset D loaded with a selection sel over axis 0 has the global
\* shape of D[sel], and the buffer of rank r is D[sel] restricted along axis
\* 0 to the balanced-split range of rank r over the selected length.
C25_LoadsSelection ==
    \A r \in Ranks : h5.got[r].res # "todo" => LoadedAsSelected(r)

\* the same for selections whose slices have start <= stop and that select
\* something, or are read from a file given by its name
C25_ForwardSelectionLoads ==
    (/\ \A k \in 1..Len(h5.sel) : h5.sel[k].start.v <= h5.sel[k].stop.v
     /\ h5.f = "filename" \/ Prod(SelectedShape) > 0) =>
        \A r \in Ranks : h5.got[r].res # "todo" =>
            \/ LoadedAsSelected(r)
            \/ /\ h5.got[r].res = "raised"
               /\ h5.f = "mpi file"
               /\ allreduce_max(local_nbytes(SelectedShape, 0, h5.itemsize, size))
                      > h5.threshold

\* a stepped selection was loaded on four ranks, two of them without rows
C25_SteppedSelectionLoaded ==
    /\ size = 4
    /\ SelectedShape[1] = 2
    /\ SliceStep(SelOf(0)) = 2
    /\ \A r \in Ranks : LoadedAsSelected(r)


(***************************************************************************)
(* Properties of the serial write.                                         *)
(***************************************************************************)
\* the positions in the log of the events of a kind of rank r
LogAt(kind, r) == {i \in 1..Len(h5.log) : h5.log[i] = <<kind, r>>}

\* the rows of the dataset that are rank r's part of axis 0
RowsOf(r) ==
    split_local(At(h5.global_shape, 0), size, r).start
        ..(split_local(At(h5.global_shape, 0), size, r).end - 1)

TaskIds == 1..Len(mgr.cfg)

\* what the log holds about task i, in order
Entries(i) == SelectSeq(mgr.log, LAMBDA e : e[2] = i)

Listed(i) == \E k \in 1..Len(mgr.tasks) : mgr.tasks[k] = i

\* C28: for every task the stage methods are called in the order setup,
\* next, finish: setup is never called after a next or finish of the task,
\* next is never called after its finish, finish is called at most once,
\* and after finish no method of the task is called: the task is in the
\* state that removes it from the task list at its next visit, and is not
\* visited again once removed.
C28_StagesInOrder ==
    \A i \in TaskIds :
        /\ \A p \in 1..Len(Entries(i)), q \in 1..Len(Entries(i)) :
              (p < q) =>
                 /\ (Entries(i)[p][1] \in {"next", "finish"})
                        => (Entries(i)[q][1] # "setup")
                 /\ (Entries(i)[p][1] = "finish")
                        => (Entries(i)[q][1] = "remove")
                 /\ Entries(i)[p][1] # "remove"
        /\ (\E p \in 1..Len(Entries(i)) : Entries(i)[p][1] = "finish")
               => (~Listed(i) \/ mgr.task[i].state = "raise")
        /\ Listed(i) <=>
               ~\E p \in 1..Len(Entries(i)) : Entries(i)[p][1] = "remove"

\* a task has run setup, next three times (the last raising
\* PipelineStopIteration) and finish, and has been removed
C28_Witness ==
    \E i \in TaskIds :
        /\ Len(Entries(i)) = 6
        /\ Entries(i)[1][1] = "setup"
        /\ Entries(i)[2][1] = "next"
        /\ Entries(i)[4][1] = "next"
        /\ Entries(i)[5][1] = "finish"
        /\ Entries(i)[6][1] = "remove"
        /\ ~Listed(i)

\* how often finish() of task i has been called
FinishCalls(i) == Len(SelectSeq(Entries(i), LAMBDA e : e[1] = "finish"))

\* run has returned with an empty task list, every finish() called once
Completed ==
    /\ mgr.pc = "returned"
    /\ mgr.tasks = <<>>
    /\ \A i \in TaskIds : FinishCalls(i) = 1

\* the tasks whose 'out' key is key
Producers(key) == {j \in TaskIds : key # "" /\ mgr.cfg[j].out = key}

\* the keys task i takes
Takes(i) ==
    {mgr.cfg[i].in_[k] : k \in 1..Len(mgr.cfg[i].in_)}
        \cup ({mgr.cfg[i].requires} \ {""})

\* every task is listed behind the tasks that produce what it takes, and
\* what a task requires for setup() is produced at most once
WellOrdered ==
    \A i \in TaskIds :
        /\ \A key \in Takes(i) : \A j \in Producers(key) : j < i
        /\ \A j \in Producers(mgr.cfg[i].requires) :
              /\ Producers(mgr.cfg[i].requires) = {j}
              /\ mgr.cfg[j].in_ = <<>>
              /\ mgr.cfg[j].emits <= 1

NextCalls(i) ==
    {p \in 1..Len(mgr.log) : mgr.log[p][1] = "next" /\ mgr.log[p][2] = i}

\* task i takes an 'in' key of which no product was returned so far
Starved(i) ==
    \E k \in 1..Len(mgr.cfg[i].in_) : mgr.cfg[i].in_[k] \notin mgr.produced

\* next() was called with a product out of every input queue
NextHadInputs ==
    \A p \in 1..Len(mgr.log) :
        (mgr.log[p][1] = "next") =>
            \A k \in 1..Len(mgr.log[p][3]) : mgr.log[p][3][k] >= 1

\* next() of a task one of whose 'in' keys was not produced was not called,
\* and next() of a task listed behind it was called only after its finish()
StarvedNeverIterates ==
    \A i \in TaskIds :
        Starved(i) =>
            /\ NextCalls(i) = {}
            /\ \A j \in TaskIds : \A p \in NextCalls(j) :
                  (j > i) =>
                      \E q \in 1..(p - 1) : mgr.log[q] = <<"finish", i>>

\* the task visited is the first of the list, iterating and short of an input
HeadMisses ==
    /\ mgr.pc = "for"
    /\ Visited = Head(mgr.tasks)
    /\ mgr.task[Visited].state = "next"
    /\ missing_data(mgr.task[Visited], mgr.cfg[Visited])

\* C30: next() of a task is called only when each of its 'in' queues holds
\* a product; a task whose 'in' product is never produced never has next()
\* called; when it is the first task of the list it is advanced to
\* finish(), and the tasks listed behind it iterate only after its finish()
\* (in the documented example DoNothing.next is never called and PrintEggs
\* iterates only after DoNothing has finished).
C30_NextNeedsInputs ==
    /\ [](NextHadInputs /\ StarvedNeverIterates)
    /\ [][HeadMisses => mgr'.task[Visited].state = "finish"]_vars

\* the documented example, a task list only add_task builds, has run:
\* CookEggs was given every egg, DoNothing has finished without a call of
\* next(), PrintEggs has iterated
C30_Witness ==
    /\ mgr.cfg = DocExample
    /\ ~validate_task(mgr.cfg)
    /\ mgr.pc = "returned"
    /\ Cardinality(NextCalls(2)) = 3
    /\ NextCalls(3) = {}
    /\ \E q \in 1..Len(mgr.log) : mgr.log[q] = <<"finish", 3>>
    /\ Cardinality(NextCalls(4)) = 4

\* how often setup() of task i has been called
SetupCalls(i) == Len(SelectSeq(Entries(i), LAMBDA e : e[1] = "setup"))

\* a call of next() or finish() of task i comes after a call of its setup()
SetupFirst(i) ==
    \A q \in 1..Len(Entries(i)) :
        (Entries(i)[q][1] \in {"next", "finish"}) =>
            \E p \in 1..(q - 1) : Entries(i)[p][1] = "setup"

\* C39: setup() of every task is called exactly once (never twice, and
\* once by the time run returns) and before the first call of the task's
\* next() or finish(), also for a task whose 'requires' product is never
\* delivered.
C39_SetupOnceFirst ==
    \A i \in TaskIds :
        /\ SetupCalls(i) <= 1
        /\ SetupFirst(i)
        /\ (mgr.pc = "returned") => (SetupCalls(i) = 1)

\* the same for the tasks that require nothing or were given what they
\* require before they missed it at the head of the list
C39_SuppliedSetupOnceFirst ==
    \A i \in TaskIds :
        /\ SetupCalls(i) <= 1
        /\ (mgr.cfg[i].requires = "" \/ mgr.task[i].requires.filled) =>
              /\ SetupFirst(i)
              /\ (mgr.pc = "returned") => (SetupCalls(i) = 1)

\* a task that requires a product was given it, has run setup() and next()
\* and run has returned
C39_SuppliedReached ==
    /\ mgr.pc = "returned"
    /\ \E i \in TaskIds :
          /\ mgr.cfg[i].requires # ""
          /\ SetupCalls(i) = 1
          /\ NextCalls(i) # {}

\* the products returned under key, in the order of their return
Emitted(key) ==
    LET returns == SelectSeq(mgr.log,
                       LAMBDA e : /\ e[1] = "next"
                                  /\ e[5] # <<>>
                                  /\ mgr.cfg[e[2]].out = key)
    IN  [n \in 1..Len(returns) |-> returns[n][5][1]]

\* the products the calls of next() of task i were given for its k-th 'in'
\* key, in the order of the calls
Received(i, k) ==
    LET calls == SelectSeq(mgr.log,
                     LAMBDA e : e[1] = "next" /\ e[2] = i /\ e[4] # <<>>)
    IN  [n \in 1..Len(calls) |-> calls[n][4][k]]

\* what task i was handed for its k-th 'in' key: given to next() or queued
Delivered(i, k) == Received(i, k) \o mgr.task[i].queues.q[k]

IsPrefix(s, t) == Len(s) <= Len(t) /\ s = SubSeq(t, 1, Len(s))

\* task i takes products: it is in the list and still iterating
Accepting(i) == Listed(i) /\ ~mgr.task[i].queues.deleted

\* the m-th call of next() of a task is given the m-th product returned
\* under each of its 'in' keys, and what waits in its queues follows, in
\* the order of return
DeliveredInOrder ==
    \A i \in TaskIds : \A k \in 1..Len(mgr.cfg[i].in_) :
        IsPrefix(Delivered(i, k), Emitted(mgr.cfg[i].in_[k]))

\* C31 as stated: products reach the calls of next() first-in first-out and
\* exactly once, and every task listing a key has been handed every product
\* returned under it.
C31_EveryListerGetsAll ==
    /\ DeliveredInOrder
    /\ (mgr.pc # "raised") =>
          \A i \in TaskIds : \A k \in 1..Len(mgr.cfg[i].in_) :
              Delivered(i, k) = Emitted(mgr.cfg[i].in_[k])

\* C31, amended: the m-th call of next() of a task is given the m-th
\* product returned under each of its 'in' keys, no product twice, out of
\* order or under a key the task does not list; every task that lists a key
\* and is still iterating has been handed every product returned under it;
\* a task that was advanced to finish() is handed nothing more.
C31_FifoOncePerConsumer ==
    /\ DeliveredInOrder
    /\ (mgr.pc # "raised") =>
          \A i \in TaskIds : \A k \in 1..Len(mgr.cfg[i].in_) :
              Accepting(i) => (Delivered(i, k) = Emitted(mgr.cfg[i].in_[k]))

\* two tasks list the same key and the next() of each was given the first
\* and then the second product returned under it
C31_Witness ==
    \E i \in TaskIds, j \in TaskIds :
        /\ i # j
        /\ mgr.cfg[i].in_ # <<>> /\ mgr.cfg[j].in_ # <<>>
        /\ mgr.cfg[i].in_[1] = mgr.cfg[j].in_[1]
        /\ Len(Received(i, 1)) = 2
        /\ Received(j, 1) = Received(i, 1)
        /\ Received(i, 1) = Emitted(mgr.cfg[i].in_[1])

\* a delivery has raised PipelineRuntimeError
DeliveryRaised == mgr.pc = "raised"

\* every task has been handed every product returned under the keys it
\* takes: its 'in' products in its queues or its calls of next(), its
\* 'requires' product in its slot
AllHandedOver ==
    \A i \in TaskIds :
        /\ \A k \in 1..Len(mgr.cfg[i].in_) :
              Delivered(i, k) = Emitted(mgr.cfg[i].in_[k])
        /\ (mgr.cfg[i].requires # "") =>
              (mgr.task[i].requires.filled <=>
                  (Emitted(mgr.cfg[i].requires) # <<>>))

OutputMismatch ==
    /\ mgr.out.some
    /\ ~mgr.is_tuple
    /\ Len(mgr.out_keys) >= 1
    /\ Len(mgr.out.v) # Len(mgr.out_keys)

\* run is through with the output
OutputHandled == mgr.pc \in {"continue", "delivered", "raised", "index error"}

\* no queue of a task of the list holds a product
NothingDelivered ==
    \A i \in 1..Len(mgr.task) : \A k \in 1..Len(mgr.task[i].queues.q) :
        mgr.task[i].queues.q[k] = <<>>

\* C32: a stage output that is not None and whose number of elements
\* differs from the number of 'out' keys declared as a list (one key
\* included) makes run raise PipelineRuntimeError, and nothing of the
\* output is delivered to a task.
C32_MismatchRaises ==
    (OutputMismatch /\ OutputHandled) =>
        (mgr.pc = "raised" /\ NothingDelivered)

\* the same for a list of two or more 'out' keys
C32_SeveralKeysMismatchRaises ==
    (OutputMismatch /\ OutputHandled /\ Len(mgr.out_keys) >= 2) =>
        (mgr.pc = "raised" /\ NothingDelivered)

\* an output of three elements for two 'out' keys has been refused
C32_MismatchRefused ==
    /\ OutputMismatch
    /\ Len(mgr.out_keys) = 2 /\ Len(mgr.out.v) = 3
    /\ mgr.pc = "raised"


(***************************************************************************)
(* Properties of the exchange of redistribute.                            *)
(***************************************************************************)
\* rank r has run the send/receive loop of its current call
Looped(r) ==
    /\ size > 1
    /\ pc[r] \in {"barrier1", "waitsend", "barrier2", "waitrecv", "assemble",
                  "raised"}

\* the exchanges rank r has gone into so far
Exchanges(r) ==
    Len(SelectSeq(path[r], LAMBDA p : p = "exchange"))
        + (IF Looped(r) THEN 1 ELSE 0)

\* the target range of rank j along the new axis in j's current call
TargetRange(j) == split_all(At(Self(j).global_shape, Axis(j)), size)

\* the part of the buffer rank i had at the entry of call number c that
\* lies in [lo, hi) along axis ax, and the shape of that part
PartShape(i, c, ax, lo, hi) == SetAt(snap[i][c].arr.local_shape, ax, hi - lo)

PartSent(i, c, ax, lo, hi) ==
    flatten(SliceAx(snap[i][c].data, snap[i][c].arr.local_shape, ax, lo, hi),
            PartShape(i, c, ax, lo, hi))

\* one send and one receive per pair and exchange
OncePerPair ==
    \A p \in Pairs :
        /\ nIsend[p] = Exchanges(p[1])
        /\ nIrecv[p] = Exchanges(p[2])

\* the requests a rank holds after its loop carry the tag i * size + j
TaggedByPair ==
    \A r \in Ranks :
        (pc[r] = "barrier1") =>
            /\ Len(requests_send[r]) = size /\ Len(requests_recv[r]) = size
            /\ \A k \in 1..size :
                  /\ requests_send[r][k] = <<r, k - 1, r * size + (k - 1)>>
                  /\ requests_recv[r][k] = <<k - 1, r, (k - 1) * size + r>>

TagsDistinct ==
    \A p \in Pairs, q \in Pairs :
        (p # q) => (p[1] * size + p[2] # q[1] * size + q[2])

\* a receive rank j waits for finds the message of its own pair: the part
\* of the source's buffer in j's target range, as many elements as the
\* receive buffer has, whose shape is the source's extent along the old
\* axis by j's extent along the new axis
OwnPairCompletes ==
    \A j \in Ranks :
        (pc[j] = "waitrecv") =>
            \A k \in 1..Len(requests_recv[j]) :
                LET req == requests_recv[j][k]
                    i   == req[1]
                    lo  == TargetRange(j).start[j]
                    hi  == TargetRange(j).end[j]
                    m   == Match(chan[<<i, j>>], i * size + j)
                IN  /\ req[2] = j /\ req[3] = i * size + j
                    /\ m = 1
                    /\ chan[<<i, j>>][m].data
                          = PartSent(i, CallNo(j), Axis(j), lo, hi)
                    /\ buffers[j][i + 1].shape
                          = PartShape(i, CallNo(j), Axis(j), lo, hi)
                    /\ Len(chan[<<i, j>>][m].data)
                          = Prod(buffers[j][i + 1].shape)

\* C33: in a multi-process redistribute every ordered pair (i, j) has
\* exactly one send by i and one receive by j, both with tag i * size + j;
\* the tags of distinct pairs are distinct; the block sent is the part of
\* i's buffer in j's target range along the new axis, the receive buffer
\* has its shape, and every receive is completed by the send of its own
\* pair with as many elements.
C33_PairwiseExchange ==
    OncePerPair /\ TaggedByPair /\ TagsDistinct /\ OwnPairCompletes

\* on two ranks a rank waits in its second exchange for a block of more
\* than one element from the other rank
C33_Witness ==
    /\ size = 2
    /\ \E j \in Ranks :
          /\ pc[j] = "waitrecv"
          /\ CallNo(j) = 2
          /\ requests_recv[j] # <<>>
          /\ Head(requests_recv[j])[1] # j
          /\ Prod(buffers[j][Head(requests_recv[j])[1] + 1].shape) > 1

\* every rank has returned from its calls, having left two barriers and
\* 2 * size waits in every exchange, with no request left to wait for
AllThrough ==
    \A r \in Ranks :
        /\ pc[r] = "done"
        /\ nbar[r] = 2 * Exchanges(r)
        /\ nwait[r] = 2 * size * Exchanges(r)
        /\ requests_send[r] = <<>> /\ requests_recv[r] = <<>>

\* C37: when every rank calls redistribute with the same new axis on
\* arrays of the same global shape and distributed axis, then in every
\* interleaving every rank passes both barriers, every wait on a send or a
\* receive completes, and every rank returns.
C37_RedistributeReturns == <>AllThrough

\* three ranks have returned from two exchanges
C37_Witness ==
    /\ size = 3
    /\ AllThrough
    /\ \A r \in Ranks : Exchanges(r) = 2


(***************************************************************************)
(* Properties of _reslice.                                                 *)
(***************************************************************************)
\* the slice returned selects the elements number a .. b - 1 of the
\* elements the slice selects, in their order
Rebased ==
    Selects(h5.res, h5.n)
        = SubSeq(Selects(h5.slice_, h5.n), h5.subslice.start.v + 1,
                 h5.subslice.stop.v)

\* C34: for every axis length n, every slice s with a step other than 0
\* and every sub-range [a, b) of the elements s selects, the slice
\* _reslice(s, n, slice(a, b)) selects exactly the elements number
\* a .. b - 1 of those s selects, in the same order.
C34_RebaseSelectsSubrange == (h5.pc = "done") => Rebased

\* the same for the slices that run forwards
C34_ForwardRebaseSelectsSubrange ==
    (h5.pc = "done" /\ slice_indices(h5.slice_, h5.n).step > 0) => Rebased

\* a slice of step 2 given from behind the axis has been rebased to the
\* second of the two elements it selects
C34_ForwardReached ==
    /\ h5.pc = "done"
    /\ h5.n = 3
    /\ h5.slice_ = PySlice(Some(0 - 3), None, Some(2))
    /\ h5.subslice = PySlice(Some(1), Some(2), None)
    /\ Selects(h5.res, h5.n) = <<2>>


\* C35: the split axis of every plan the planner returns, for a single
\* partition, for a skip requested and for several partitions alike, is an
\* axis other than the distributed axis of the array.
C35_SplitAxisNotDistributed ==
    \A r \in Ranks :
        (h5.plan[r].res = "ok") => (h5.plan[r].split_axis # h5.axis)

\* the same for the plans the search of lines 1314-1322 has produced
C35_SearchedSplitAxisNotDistributed ==
    \A r \in Ranks :
        (/\ h5.plan[r].res = "ok"
         /\ ~h5.skip
         /\ CeilDiv(LargestSize, h5.threshold) # 1) =>
            (h5.plan[r].split_axis # h5.axis)

\* an array distributed along axis 0 and above the threshold has been split
\* in two along axis 1
C35_SearchedReached ==
    \E r \in Ranks :
        /\ ~h5.skip
        /\ h5.axis = 0
        /\ h5.plan[r].res = "ok"
        /\ h5.plan[r].split_axis = 1
        /\ Len(h5.plan[r].partitions) = 2


(***************************************************************************)
(* Properties of the dispatch with an output array.                        *)
(***************************************************************************)
\* the distributed axis of the output array is not the one of the result
OutAxisMismatch ==
    /\ ~ufunc_axis_exception(coll.self, coll.kwaxis)
    /\ coll.out.axis
           # ufunc_dist_axis(coll.self, coll.method, coll.kwaxis, coll.keepdims)

\* C36: when the output array handed to a dispatched operation has a
\* distributed axis other than the axis expected of the result, the
\* dispatcher raises AxisException and the local buffer of the output
\* array holds the values it held before the call.
C36_OutAxisMismatchLeavesOut ==
    (coll.pc = "done" /\ OutAxisMismatch) =>
        (/\ coll.res = "AxisException"
         /\ coll.out.buf = Zeros(Len(coll.out.buf)))

\* such a call raises AxisException, and a call with the output array on
\* the expected axis returns with the result in the output array
C36_OutAxisMismatchRaises ==
    /\ (coll.pc = "done" /\ OutAxisMismatch) => (coll.res = "AxisException")
    /\ (coll.pc = "done" /\ coll.res = "ok") =>
           (/\ ~OutAxisMismatch
            /\ coll.out.buf = ufunc_primitive(coll.ufunc, coll.method,
                                              coll.self.buf, coll.self.shape,
                                              coll.kwaxis))

\* np.add of an array distributed along axis 1 into an output array
\* distributed along axis 0 has raised
C36_MismatchRaised ==
    /\ coll.pc = "done"
    /\ coll.method = "__call__"
    /\ coll.ufunc = "add"
    /\ coll.self.axis = 1
    /\ coll.out.axis = 0
    /\ coll.self.shape = <<2, 2>>
    /\ coll.res = "AxisException"


(***************************************************************************)
(* Properties of the communicator of derived arrays.                       *)
(***************************************************************************)
\* the offset of array a on rank r is the start of the r-th share of its
\* distributed axis
OffsetOfRank(a, r) ==
    a.local_offset
        = PySet(Zeros(Len(a.local_offset)), a.axis,
                split_local(PyAt(a.global_shape, a.axis), size, r).start)

\* a step that derives an array by one of the operations ops hands back, on
\* every rank, an array on the communicator of the array it was derived
\* from, with the offset of the rank in it
DerivedOnSameComm(ops) ==
    \A r \in Ranks :
        (/\ darr # <<>>
         /\ lastop'.op \in ops
         /\ made'[r].res = "ok") =>
            (/\ made'[r].arr.comm = darr[r].comm
             /\ OffsetOfRank(made'[r].arr, r))

\* C38: the result of the elementwise and the reduction dispatch, of copy,
\* direct slicing, transpose, reshape and redistribute of an array over a
\* communicator C, the process-wide default or not, is an array over C with
\* the local offset of the rank's position in C.
C38_DerivedKeepsComm ==
    [][DerivedOnSameComm({"ufunc", "reduce", "copy", "getitem", "transpose",
                          "reshape", "redistribute"})]_vars

\* the same without the dispatch
C38_ViewsKeepComm ==
    [][DerivedOnSameComm({"copy", "getitem", "transpose", "reshape",
                          "redistribute"})]_vars

\* an array over a communicator other than the default one has been
\* redistributed on three ranks
C38_ViewsReached ==
    /\ size = 3
    /\ lastop.op = "redistribute"
    /\ lastop.depth = 1
    /\ \A r \in Ranks : made[r].res = "ok" /\ made[r].arr.comm = "dup"
    /\ made[2].arr.local_offset # Zeros(Len(made[2].arr.local_offset))

====
